---------------------------- MODULE Spec2Model ----------------------------
(***************************************************************************)
(* Sounding Viewer: the editable sounding (class Sounding), its observers  *)
(* (SoundingPlot, IndexTable, LevelDetails) and the index battery.         *)
(*                                                                         *)
(* Numbers.  A JavaScript number is modelled as an integer counting        *)
(* 1/Unit-ths of the physical unit (hPa, m, degC, deg, km/h), or as the   *)
(* sentinel NaN.  Unit is a power of two chosen so that every halving      *)
(* done by Sounding.interpolate is exact, as it is in binary floating      *)
(* point for the values used here.  Results of getValueAt are exact        *)
(* rationals [n, d]; 0/0 stands for NaN.                                   *)
(***************************************************************************)
EXTENDS Integers, Sequences, FiniteSets, TLC

(* Number of Level objects that may be created after construction. *)
MaxNew == 2

(* Number of operations explored after construction. *)
MaxOps == 2

RECURSIVE Pow2(_)
Pow2(k) == IF k = 0 THEN 1 ELSE 2 * Pow2(k - 1)

(* Model units per physical unit. *)
Unit == Pow2(MaxNew)

(* The not-a-number sentinel (Level fields are initialised to NaN). *)
NaN == -1000000

IsNaN(x) == x = NaN

(* value of x physical units *)
U(x) == x * Unit

(* IEEE comparisons: every comparison with NaN is false. *)
Lt(a, b) == ~IsNaN(a) /\ ~IsNaN(b) /\ a < b
Le(a, b) == ~IsNaN(a) /\ ~IsNaN(b) /\ a <= b
Gt(a, b) == ~IsNaN(a) /\ ~IsNaN(b) /\ a > b
NumEq(a, b) == ~IsNaN(a) /\ ~IsNaN(b) /\ a = b

(* The six data attributes of a level, in LevelSource order. *)
Attributes == {"pressure", "height", "temp", "dewpt", "winddir", "windspd"}

(* ---------------------------------------------------------------------- *)
(* Exact rationals for interpolated results.                               *)
(* ---------------------------------------------------------------------- *)
Abs(x) == IF x < 0 THEN -x ELSE x

RECURSIVE Gcd(_, _)
Gcd(a, b) == IF b = 0 THEN a ELSE Gcd(b, a % b)

NaNResult == [ok |-> TRUE, n |-> 0, d |-> 0]
Raised == [ok |-> FALSE, n |-> 0, d |-> 0]

Rat(n, d) ==
  IF d = 0 THEN NaNResult
  ELSE LET g == Gcd(Abs(n), Abs(d))
           s == IF d < 0 THEN -1 ELSE 1
       IN  [ok |-> TRUE, n |-> (s * n) \div g, d |-> (s * d) \div g]

(* the result that is exactly the stored number v *)
Exactly(v) == IF IsNaN(v) THEN NaNResult ELSE Rat(v, 1)

(* ---------------------------------------------------------------------- *)
(* class Level                                                             *)
(* ---------------------------------------------------------------------- *)
(* a constructor that leaves the counter alone: every level gets id 0 *)
NewLevelSameId(id) ==
  [id |-> 0, pressure |-> NaN, height |-> NaN, temp |-> NaN, dewpt |-> NaN,
   winddir |-> NaN, windspd |-> NaN, enabled |-> 1]

(* new Level() when Level.lastID is id *)
NewLevel(id) ==
  [id |-> id, pressure |-> NaN, height |-> NaN, temp |-> NaN, dewpt |-> NaN,
   winddir |-> NaN, windspd |-> NaN, enabled |-> 1]

(* ---------------------------------------------------------------------- *)
(* Sounding.updateEnabledLevels: filter, then Array.prototype.sort with    *)
(* the pressure comparator.                                                *)
(* ---------------------------------------------------------------------- *)
Compare(a, b) ==
  IF Lt(a.pressure, b.pressure) THEN -1
  ELSE IF NumEq(a.pressure, b.pressure) THEN 0
  ELSE 1

RECURSIVE Filter(_)
Filter(s) ==
  IF s = <<>> THEN <<>>
  ELSE IF Head(s).enabled # 0 /\ ~IsNaN(Head(s).enabled)
       THEN <<Head(s)>> \o Filter(Tail(s))
       ELSE Filter(Tail(s))

Reverse(s) == [i \in 1..Len(s) |-> s[Len(s) + 1 - i]]

(* The sort of the engine that runs the renderer (V8), as it proceeds on   *)
(* arrays shorter than 64 elements: the leading run is found (and reversed *)
(* when strictly descending), the rest is inserted by binary insertion.    *)
(* With a consistent comparator this is the stable ascending sort; with    *)
(* NaN pressures the comparator is inconsistent and the order below is     *)
(* what the engine leaves.  Indices are 0-based as in the engine.          *)
RECURSIVE RunEnd(_, _, _)
RunEnd(s, idx, desc) ==
  IF idx >= Len(s) THEN idx
  ELSE LET order == Compare(s[idx + 1], s[idx])
       IN  IF (desc /\ order >= 0) \/ (~desc /\ order < 0)
           THEN idx
           ELSE RunEnd(s, idx + 1, desc)

RECURSIVE BinarySearch(_, _, _, _)
BinarySearch(s, pivot, left, right) ==
  IF left >= right THEN left
  ELSE LET mid == left + ((right - left) \div 2)
       IN  IF Compare(pivot, s[mid + 1]) < 0
           THEN BinarySearch(s, pivot, left, mid)
           ELSE BinarySearch(s, pivot, mid + 1, right)

RECURSIVE BinaryInsertionSort(_, _)
BinaryInsertionSort(s, start) ==
  IF start >= Len(s) THEN s
  ELSE LET pivot == s[start + 1]
           pos == BinarySearch(s, pivot, 0, start)
           t == SubSeq(s, 1, pos) \o <<pivot>> \o SubSeq(s, pos + 1, start)
                  \o SubSeq(s, start + 2, Len(s))
       IN  BinaryInsertionSort(t, start + 1)

ArraySort(s) ==
  IF Len(s) < 2 THEN s
  ELSE LET desc == Compare(s[2], s[1]) < 0
           run == RunEnd(s, 2, desc)
           t == IF desc
                THEN Reverse(SubSeq(s, 1, run)) \o SubSeq(s, run + 1, Len(s))
                ELSE s
       IN  BinaryInsertionSort(t, run)

updateEnabledLevels(lv) == ArraySort(Filter(lv))

(* ---------------------------------------------------------------------- *)
(* Queries                                                                 *)
(* ---------------------------------------------------------------------- *)
(* first(): the last element of the cache; undefined on an empty cache. *)
HasFirst(cache) == Len(cache) > 0
(* a first() that returns the head of the cache *)
firstIsHead(cache) == cache[1]

first(cache) == cache[Len(cache)]
last(cache) == cache[1]

(* getValueAt: the first consecutive pair of the cache that brackets the   *)
(* pressure; raises when there is none.                                    *)
Brackets(cache, i, pressure) ==
  Le(cache[i].pressure, pressure) /\ Le(pressure, cache[i + 1].pressure)

(* a getValueAt with the two weights exchanged *)
getValueAtSwapped(cache, pressure, prop) ==
  LET hits == {i \in 1..(Len(cache) - 1) : Brackets(cache, i, pressure)}
  IN  IF hits = {} THEN Raised
      ELSE LET i == CHOOSE k \in hits : \A j \in hits : k <= j
               cur == cache[i]
               nxt == cache[i + 1]
               interval == cur.pressure - nxt.pressure
           IN  IF IsNaN(cur[prop]) \/ IsNaN(nxt[prop]) THEN NaNResult
               ELSE Rat((pressure - nxt.pressure) * nxt[prop]
                          + (cur.pressure - pressure) * cur[prop], interval)

(* a getValueAt that answers with the nearest end of the cache when no     *)
(* pair brackets the pressure                                              *)
getValueAtClamped(cache, pressure, prop) ==
  LET hits == {i \in 1..(Len(cache) - 1) : Brackets(cache, i, pressure)}
  IN  IF hits = {}
      THEN IF Len(cache) = 0 THEN Raised
           ELSE IF Lt(pressure, cache[1].pressure) THEN Exactly(cache[1][prop])
           ELSE Exactly(cache[Len(cache)][prop])
      ELSE LET i == CHOOSE k \in hits : \A j \in hits : k <= j
               cur == cache[i]
               nxt == cache[i + 1]
               interval == cur.pressure - nxt.pressure
           IN  IF IsNaN(cur[prop]) \/ IsNaN(nxt[prop]) THEN NaNResult
               ELSE Rat((pressure - nxt.pressure) * cur[prop]
                          + (cur.pressure - pressure) * nxt[prop], interval)

getValueAt(cache, pressure, prop) ==
  LET hits == {i \in 1..(Len(cache) - 1) : Brackets(cache, i, pressure)}
  IN  IF hits = {} THEN Raised
      ELSE LET i == CHOOSE k \in hits : \A j \in hits : k <= j
               cur == cache[i]
               nxt == cache[i + 1]
               interval == cur.pressure - nxt.pressure
           IN  IF IsNaN(cur[prop]) \/ IsNaN(nxt[prop]) THEN NaNResult
               ELSE Rat((pressure - nxt.pressure) * cur[prop]
                          + (cur.pressure - pressure) * nxt[prop], interval)


(* ---------------------------------------------------------------------- *)
(* Comparisons and conversions on interpolated results                     *)
(* ---------------------------------------------------------------------- *)
IsNumber(r) == r.ok /\ r.d # 0

(* T < Td on two results (false when either is NaN) *)
RatLt(x, y) == IsNumber(x) /\ IsNumber(y) /\ x.n * y.d < y.n * x.d

(* the number held by a result, NaN for a NaN result *)
ToNum(r) == IF r.d = 0 THEN NaN ELSE r.n \div r.d

(* ---------------------------------------------------------------------- *)
(* numerical.ts: which computations raise.  The numeric values themselves  *)
(* (transcendental formulas) are not represented; what is kept of a        *)
(* computation is whether it raises and which profile state it read.       *)
(* ---------------------------------------------------------------------- *)
(* a lookup fT(p), fTd(p), fZ(p), ... raises *)
LookupRaises(cache, p) == ~\E i \in 1..(Len(cache) - 1) : Brackets(cache, i, p)

(* lookups spread over [lo, hi] (the parcel path, the quadrature nodes):   *)
(* probed at the ends and at every enabled pressure in between.            *)
RangeRaises(cache, lo, hi) ==
  \E p \in {hi} \cup {q \in {lo} \cup {cache[i].pressure : i \in 1..Len(cache)} :
                        Le(lo, q) /\ Le(q, hi)} :
     LookupRaises(cache, p)

(* liftedCondensationLevel(P, fT(P), fTd(P)) *)
liftedCondensationLevelRaises(cache, P) ==
  \/ LookupRaises(cache, P)
  \/ RatLt(getValueAt(cache, P, "temp"), getValueAt(cache, P, "dewpt"))

computeCAPERaises(cache, Pbegin, Pend) ==
  \/ liftedCondensationLevelRaises(cache, Pbegin)
  \/ RangeRaises(cache, Pend, Pbegin)

computeLiftedIndexRaises(cache, Pbegin) ==
  \/ liftedCondensationLevelRaises(cache, Pbegin)
  \/ LookupRaises(cache, U(500))

computeShowalterRaises(cache) ==
  \/ liftedCondensationLevelRaises(cache, U(850))
  \/ LookupRaises(cache, U(500))

(* the pressures p = Pbegin, Pbegin - 5, ... >= Pend of the inflow scan *)
InflowStep == 5

computeEffectiveInflowRaises(cache, Pbegin, Pend) ==
  /\ Le(Pend, Pbegin)
  /\ \E k \in 0..((Pbegin - Pend) \div U(InflowStep)) :
       computeCAPERaises(cache, Pbegin - (k * U(InflowStep)), Pend)

(* Sounding.getWindAt(h): interpolation by height between enabled levels;  *)
(* raises outside the heights of the enabled levels.                       *)
getWindAtRaises(cache, h) ==
  LET hs == {cache[i].height : i \in 1..Len(cache)} \ {NaN}
  IN  \/ Len(cache) < 2
      \/ IsNaN(h)
      \/ ~(\E a \in hs : a <= h)
      \/ ~(\E b \in hs : h <= b)

computeShearRaises(cache, zBegin, zEnd) ==
  getWindAtRaises(cache, zBegin) \/ getWindAtRaises(cache, zEnd)

(* computeMeanWind samples z = begin, begin + 100, ... < end: nothing for  *)
(* a NaN bound.  computeSTM averages up to zBegin + 6000.                  *)
MeanWindStep == 100
MeanWindTop == 6000

computeSTMRaises(cache, zBegin) ==
  /\ ~IsNaN(zBegin)
  /\ \/ getWindAtRaises(cache, zBegin)
     \/ getWindAtRaises(cache, zBegin + U(MeanWindTop - MeanWindStep))

computeSREHRaises(cache, zBegin) ==
  computeSTMRaises(cache, zBegin) \/ getWindAtRaises(cache, zBegin)

computeEHIRaises(cache, Pbegin, Pend) ==
  \/ computeCAPERaises(cache, Pbegin, Pend)
  \/ computeSREHRaises(cache, ToNum(getValueAt(cache, Pbegin, "height")))


(* ---------------------------------------------------------------------- *)
(* class IndexTable                                                        *)
(* ---------------------------------------------------------------------- *)
(* A closure variable of the IndexTable constructor (CAPE, CIN, LFC, EL,   *)
(* inflow).  set: assigned by some pass; num: holds a number, not NaN;     *)
(* stale: the profile has changed since the pass that assigned it.         *)
Unassigned == [set |-> FALSE, num |-> FALSE, stale |-> FALSE]
Fresh(isNum) == [set |-> TRUE, num |-> isNum, stale |-> FALSE]
Aged(v) == [v EXCEPT !.stale = v.set]

AgedClosure(cl) == [k \in DOMAIN cl |-> Aged(cl[k])]

(* The battery, in definition order.  ps: the fixed pressures (hPa) the    *)
(* index looks up; sfc: it evaluates pBegin(); z: height span (m).         *)
Ix(name, kind, ps, sfc, z) == [name |-> name, kind |-> kind, ps |-> ps, sfc |-> sfc, z |-> z]

Indices == <<
  Ix("CAPE", "cape", {}, TRUE, 0),
  Ix("CIN", "cin", {}, FALSE, 0),
  Ix("Maximum updraft (m/s)", "updraft", {}, FALSE, 0),
  Ix("Level of Free Convection", "lfc", {}, FALSE, 0),
  Ix("Equilibrium Level", "el", {}, FALSE, 0),
  Ix("Lifted Index", "li", {}, TRUE, 0),
  Ix("Precipitable Water", "pw", {}, TRUE, 0),
  Ix("K Index", "fixed", {850, 700, 500}, FALSE, 0),
  Ix("Totals Totals", "fixed", {850, 500}, FALSE, 0),
  Ix("Boyden Index", "fixed", {700, 1000}, FALSE, 0),
  Ix("Vertical Totals", "fixed", {850, 500}, FALSE, 0),
  Ix("Cross Totals", "fixed", {850, 500}, FALSE, 0),
  Ix("Modified Jefferson Index", "fixed", {850, 500, 700}, FALSE, 0),
  Ix("Rackliff Index", "fixed", {850, 500}, FALSE, 0),
  Ix("Thompson Index", "li", {850, 700, 500}, TRUE, 0),
  Ix("Showalter Index", "showalter", {}, FALSE, 0),
  Ix("Modified K Index", "fixed", {500, 700}, TRUE, 0),
  Ix("Modified Totals Totals", "fixed", {500}, TRUE, 0),
  Ix("Convective Instability Index", "fixed", {700, 850}, TRUE, 0),
  Ix("Fog Stability Index", "fixed", {850}, TRUE, 0),
  Ix("Deep Convective Index", "li", {850}, TRUE, 0),
  Ix("Ko Index", "fixed", {1000, 850, 700, 500}, FALSE, 0),
  Ix("Potential Instability Index", "fixed", {925, 500, 950}, FALSE, 0),
  Ix("Humidity Index", "fixed", {850, 700, 500}, FALSE, 0),
  Ix("Bulk Shear 0-1 km (kt)", "shear", {}, TRUE, 1000),
  Ix("Bulk Shear 0-3 km (kt)", "shear", {}, TRUE, 3000),
  Ix("Bulk Shear 0-6 km (kt)", "shear", {}, TRUE, 6000),
  Ix("Bulk Shear 0-8 km (kt)", "shear", {}, TRUE, 8000),
  Ix("Bulk Shear Inflow (kt)", "inflow", {}, TRUE, 0),
  Ix("Bunkers STM (R) (kt)", "stm", {}, TRUE, 0),
  Ix("Bunkers STM (L) (kt)", "stm", {}, TRUE, 0),
  Ix("SReH (0-1 km) (m^2/s^2)", "sreh", {}, TRUE, 1000),
  Ix("SReH (0-3 km) (m^2/s^2)", "sreh", {}, TRUE, 3000),
  Ix("SReH (Inflow) (m^2/s^2)", "srehinflow", {}, FALSE, 3000),
  Ix("Energy Helicity Index 0-1km", "ehi", {}, TRUE, 1000),
  Ix("Energy Helicity Index 0-3km", "ehi", {}, TRUE, 3000),
  Ix("Energy Helicity Index Inflow", "ehiinflow", {}, TRUE, 0),
  Ix("SWEAT Index", "fixed", {850, 500}, FALSE, 0) >>

(* What the lifted parcel meets, which the model does not compute: no      *)
(* positive layer (LFC and EL stay NaN), a positive layer that reaches the *)
(* top (LFC only), or a positive layer closed by a negative one (LFC, EL). *)

(* Inputs of one pass that stand for numeric results the model does not    *)
(* compute.  layer: computeEffectiveInflow returns a layer.  reach: a      *)
(* lookup at a value computed by an earlier index (a stale LFC or EL, the  *)
(* heights of the inflow layer) stays in range.                            *)
Numerics ==
  { [parcel |-> "none", layer |-> FALSE, reach |-> FALSE],
    [parcel |-> "lfc", layer |-> TRUE, reach |-> FALSE],
    [parcel |-> "el", layer |-> TRUE, reach |-> TRUE] }

(* no pair of the cache brackets anything: every lookup raises *)
NothingInRange(cache) ==
  ~\E i \in 1..(Len(cache) - 1) : Le(cache[i].pressure, cache[i + 1].pressure)

(* Whether index.func(sounding) of the i-th index raises on account of the *)
(* profile alone: an accessor on an empty cache, a lookup out of range, a  *)
(* parcel drier than its dew point, an inflow scan too short to close a    *)
(* layer (inflowLayer stays undefined).                                    *)
ProfileRaises(i, cache) ==
  LET ix == Indices[i]
      sfcRaises == ix.sfc /\ ~HasFirst(cache)
      pBegin == first(cache).pressure
      pEnd == last(cache).pressure
      zBegin == first(cache).height
      fixedRaises == \E p \in ix.ps : LookupRaises(cache, U(p))
  IN  CASE ix.kind = "cape" -> sfcRaises \/ computeCAPERaises(cache, pBegin, pEnd)
        [] ix.kind = "li" ->
             sfcRaises \/ computeLiftedIndexRaises(cache, pBegin) \/ fixedRaises
        [] ix.kind = "pw" -> sfcRaises \/ RangeRaises(cache, pEnd, pBegin)
        [] ix.kind = "fixed" ->
             sfcRaises \/ (ix.sfc /\ LookupRaises(cache, pBegin)) \/ fixedRaises
        [] ix.kind = "showalter" -> computeShowalterRaises(cache)
        [] ix.kind = "shear" ->
             sfcRaises \/ computeShearRaises(cache, zBegin, zBegin + U(ix.z))
        [] ix.kind = "inflow" ->
             \/ sfcRaises
             \/ computeEffectiveInflowRaises(cache, pBegin, pEnd)
             \/ ~Le(pEnd, pBegin - U(InflowStep))
        [] ix.kind \in {"lfc", "el", "srehinflow"} -> NothingInRange(cache)
        [] ix.kind = "stm" -> sfcRaises \/ computeSTMRaises(cache, zBegin)
        [] ix.kind = "sreh" -> sfcRaises \/ computeSREHRaises(cache, zBegin)
        [] ix.kind \in {"ehi", "ehiinflow"} ->
             sfcRaises \/ computeEHIRaises(cache, pBegin, pEnd)
        [] OTHER -> FALSE

(* ProfileRaises for the indices lo..hi of the battery *)
RECURSIVE RaisingRange(_, _, _)
RaisingRange(lo, hi, cache) ==
  IF lo = hi THEN <<ProfileRaises(lo, cache)>>
  ELSE RaisingRange(lo, (lo + hi) \div 2, cache)
         \o RaisingRange(((lo + hi) \div 2) + 1, hi, cache)

Raising(cache) == RaisingRange(1, Len(Indices), cache)

(* index.func(sounding) for the i-th index: whether it raises, whether the *)
(* value it returns was computed from an earlier profile state, and the    *)
(* closure variables it leaves.  pr: ProfileRaises of this index.          *)
Outcome(raises, stale, cl) == [raises |-> raises, stale |-> stale, cl |-> cl]

IndexFunc(i, pr, cl, nx) ==
  LET ix == Indices[i]
  IN  CASE ix.kind = "cape" ->
             IF pr THEN Outcome(TRUE, FALSE, cl)
             ELSE Outcome(FALSE, FALSE,
                    [cl EXCEPT !.CAPE = Fresh(TRUE), !.CIN = Fresh(TRUE),
                               !.LFC = Fresh(nx.parcel # "none"),
                               !.EL = Fresh(nx.parcel = "el")])
        [] ix.kind = "cin" -> Outcome(FALSE, cl.CIN.stale, cl)
        [] ix.kind = "updraft" -> Outcome(FALSE, cl.CAPE.stale, cl)
        [] ix.kind = "lfc" ->
             Outcome(pr \/ ~cl.LFC.num \/ (cl.LFC.stale /\ ~nx.reach), cl.LFC.stale, cl)
        [] ix.kind = "el" ->
             Outcome(pr \/ ~cl.EL.num \/ (cl.EL.stale /\ ~nx.reach), cl.EL.stale, cl)
        [] ix.kind = "inflow" ->
             IF pr \/ ~nx.layer THEN Outcome(TRUE, FALSE, cl)
             ELSE Outcome(~nx.reach, FALSE, [cl EXCEPT !.inflow = Fresh(TRUE)])
        [] ix.kind = "srehinflow" ->
             Outcome(pr \/ ~cl.inflow.num \/ ~nx.reach, cl.inflow.stale, cl)
        [] ix.kind = "ehiinflow" ->
             Outcome(pr \/ (cl.inflow.num /\ ~nx.reach), cl.inflow.stale, cl)
        [] OTHER -> Outcome(pr, FALSE, cl)

(* One row of 'sounding-indices-body'. *)
Row(name, value, stale) == [name |-> name, value |-> value, stale |-> stale]

(* a loop body whose catch appends nothing for an index that raises *)
PrintRowSilent(i, r) ==
  [rows |-> IF r.raises THEN <<>> ELSE <<Row(Indices[i].name, "number", r.stale)>>,
   cl |-> r.cl]

(* The body of the for loop of printIndices for the i-th index, r the      *)
(* outcome of index.func: the row appended and the closure variables left. *)
PrintRow(i, r) ==
  [rows |-> <<IF r.raises
              THEN Row(Indices[i].name, "Undefined", FALSE)
              ELSE Row(Indices[i].name, "number", r.stale)>>,
   cl |-> r.cl]

(* The for loop over the indices lo..hi, entered with the closure          *)
(* variables cl: the rows appended, in order, and the closure variables    *)
(* left.  The iterations of the second half start from what the first half *)
(* left.                                                                   *)
RECURSIVE PrintRange(_, _, _, _, _)
Joined(left, right) == [rows |-> left.rows \o right.rows, cl |-> right.cl]

Continued(left, mid, hi, raising, nx) ==
  Joined(left, PrintRange(mid + 1, hi, raising, left.cl, nx))

PrintRange(lo, hi, raising, cl, nx) ==
  IF lo = hi THEN PrintRow(lo, IndexFunc(lo, raising[lo], cl, nx))
  ELSE Continued(PrintRange(lo, (lo + hi) \div 2, raising, cl, nx),
                 (lo + hi) \div 2, hi, raising, nx)

(* IndexTable.printIndices: replaceChildren(), then one row per index *)
printIndices(raising, cl, nx) == PrintRange(1, Len(Indices), raising, cl, nx)

(* ---------------------------------------------------------------------- *)
(* class LevelDetails                                                      *)
(* ---------------------------------------------------------------------- *)
(* LevelDetails.update raises when getValueAt(this.pres, ...) does *)
LevelDetailsUpdateRaises(cache, p) == ~getValueAt(cache, p, "height").ok

(* ---------------------------------------------------------------------- *)
(* State                                                                   *)
(* ---------------------------------------------------------------------- *)
VARIABLES
  levels,               \* Sounding.levels, in raw order
  enabledLevels,        \* Sounding.enabledLevels, the cache
  observers,            \* Sounding.observers, in registration order
  lastID,               \* Level.lastID
  closure,              \* CAPE, CIN, LFC, EL, inflow of the IndexTable constructor
  rows,                 \* children of 'sounding-indices-body'
  pres,                 \* LevelDetails.pres
  previousActiveLevel,  \* SoundingTable.previousActiveLevel
  calls,                \* observer invocations of the last onChange, with the cache seen
  op,                   \* the last operation and how it ended
  ops,                  \* operations made
  snapshot,             \* the frame before the last insertBelow that returned
  calc                  \* the function of numerical.ts last applied, with its arguments

vars == <<levels, enabledLevels, observers, lastID, closure, rows, pres,
          previousActiveLevel, calls, op, ops, snapshot, calc>>

(* ---------------------------------------------------------------------- *)
(* Profiles handed to the constructor                                      *)
(* ---------------------------------------------------------------------- *)
(* a LevelSource at pressure p (hPa) of a plain mid-latitude profile *)
LevelSource(p) ==
  [pressure |-> U(p), height |-> U(((1000 - p) * 10) + 100),
   temp |-> U(((p - 500) \div 20)), dewpt |-> U(((p - 500) \div 20) - 5),
   winddir |-> U(180), windspd |-> U(20)]

Sources ==
  { <<LevelSource(1000), LevelSource(850), LevelSource(700)>>,
    <<LevelSource(1000), LevelSource(500), LevelSource(300)>>,
    <<LevelSource(1000), LevelSource(850)>> }

(* The pressure above which the constructor enables a level. *)
EnableAbove == 300

(* a constructor that enables every level not below the threshold *)
ConstructNotBelow(id, source) ==
  [NewLevel(id) EXCEPT !.pressure = source.pressure, !.height = source.height,
                       !.temp = source.temp, !.dewpt = source.dewpt,
                       !.winddir = source.winddir, !.windspd = source.windspd,
                       !.enabled = IF Lt(source.pressure, U(EnableAbove)) THEN 0 ELSE 1]

(* new Level(); Object.assign(newLevel, level); enabled = pressure > 300 *)
Construct(id, source) ==
  [NewLevel(id) EXCEPT !.pressure = source.pressure, !.height = source.height,
                       !.temp = source.temp, !.dewpt = source.dewpt,
                       !.winddir = source.winddir, !.windspd = source.windspd,
                       !.enabled = IF Gt(source.pressure, U(EnableAbove)) THEN 1 ELSE 0]

(* ---------------------------------------------------------------------- *)
(* Observer callbacks                                                      *)
(* ---------------------------------------------------------------------- *)
Printed(st, pass) == [st EXCEPT !.cl = pass.cl, !.rows = pass.rows]

(* One observer callback.  SoundingPlot.update catches what plot() raises; *)
(* IndexTable.update catches per index; LevelDetails.update does not.      *)
Callback(name, cache, raising, st, nx) ==
  LET called == [st EXCEPT !.calls = Append(@, [observer |-> name, seen |-> cache])]
  IN  CASE name = "indices" -> Printed(called, printIndices(raising, st.cl, nx))
        [] name = "details" ->
             [called EXCEPT !.raised = LevelDetailsUpdateRaises(cache, st.pres)]
        [] OTHER -> called

(* a forEach that returns after its first callback *)
ForEachFirstOnly(obs, cache, raising, st, nx) ==
  IF obs = <<>> THEN st ELSE Callback(Head(obs), cache, raising, st, nx)

(* observers.forEach(fn => {fn();}) stops at the first callback that raises *)
RECURSIVE ForEach(_, _, _, _, _)
ForEach(obs, cache, raising, st, nx) ==
  IF obs = <<>> \/ st.raised THEN st
  ELSE ForEach(Tail(obs), cache, raising,
               Callback(Head(obs), cache, raising, st, nx), nx)

(* the observers' state as an operation finds it *)
Before == [cl |-> closure, rows |-> rows, pres |-> pres, calls |-> <<>>,
           raised |-> FALSE]

(* ---------------------------------------------------------------------- *)
(* Init: initializeSounding of viewer.ts                                   *)
(* ---------------------------------------------------------------------- *)
None == [levels |-> <<>>, cache |-> <<>>, id |-> -1]

Done(name, raised) == [name |-> name, raised |-> raised]

(* no function of numerical.ts applied apart from the observers' passes *)
Idle == [fn |-> "none"]

(* ind.update() with the closure variables as declared *)
Booted(lv, cache, pass) ==
  /\ levels = lv
  /\ enabledLevels = cache
  /\ observers = <<"plot", "indices", "details">>
  /\ lastID = Len(lv)
  /\ HasFirst(cache)
  /\ pres = first(cache).pressure
  /\ ~LevelDetailsUpdateRaises(cache, pres)
  /\ previousActiveLevel = first(cache).pressure
  /\ closure = pass.cl
  /\ rows = pass.rows
  /\ calls = <<>>
  /\ op = Done("new", "")
  /\ ops = 0
  /\ snapshot = None
  /\ calc = Idle

Sounding(src) == [i \in 1..Len(src) |-> Construct(i - 1, src[i])]

Init ==
  \E src \in Sources, nx \in Numerics :
    Booted(Sounding(src), updateEnabledLevels(Sounding(src)),
           printIndices(Raising(updateEnabledLevels(Sounding(src))),
                        [CAPE |-> Unassigned, CIN |-> Unassigned, LFC |-> Unassigned,
                         EL |-> Unassigned, inflow |-> Unassigned], nx))

(* ---------------------------------------------------------------------- *)
(* class Sounding: mutations                                               *)
(* ---------------------------------------------------------------------- *)
(* the longest profile handed to the constructor *)
SourceLen == CHOOSE n \in {Len(src) : src \in Sources} : \A src \in Sources : Len(src) <= n

(* Level ids the operations are called with: stored ones and others. *)
MaxLastID == MaxNew + SourceLen
Ids == 0..(MaxLastID - 1)

(* findIndex, 1-based; 0 when no level has the id (the code's -1) *)
findIndex(lv, id) ==
  IF \E i \in 1..Len(lv) : lv[i].id = id
  THEN CHOOSE i \in 1..Len(lv) : lv[i].id = id
  ELSE 0

Stored(lv, id) == findIndex(lv, id) # 0

(* JavaScript arithmetic on numbers-or-NaN *)
Half(a, b) == IF IsNaN(a) \/ IsNaN(b) THEN NaN ELSE (a + b) \div 2
Beyond(a, b) == IF IsNaN(a) \/ IsNaN(b) THEN NaN ELSE (2 * a) - b

(* a copy of lev1 under a new id *)
interpolateCopy(lev1, lev2, id) == [lev1 EXCEPT !.id = id, !.enabled = 1]

interpolate(lev1, lev2, id) ==
  [NewLevel(id) EXCEPT !.pressure = Half(lev1.pressure, lev2.pressure),
                       !.height = Half(lev1.height, lev2.height),
                       !.temp = Half(lev1.temp, lev2.temp),
                       !.dewpt = Half(lev1.dewpt, lev2.dewpt),
                       !.winddir = Half(lev1.winddir, lev2.winddir),
                       !.windspd = Half(lev1.windspd, lev2.windspd)]

extrapolate(lev1, lev2, id) ==
  [NewLevel(id) EXCEPT !.pressure = Beyond(lev1.pressure, lev2.pressure),
                       !.height = Beyond(lev1.height, lev2.height),
                       !.temp = Beyond(lev1.temp, lev2.temp),
                       !.dewpt = Beyond(lev1.dewpt, lev2.dewpt),
                       !.winddir = Beyond(lev1.winddir, lev2.winddir),
                       !.windspd = Beyond(lev1.windspd, lev2.windspd)]

(* Array.prototype.splice(index, 0, item), index 0-based *)
SpliceIn(lv, index, item) ==
  SubSeq(lv, 1, index) \o <<item>> \o SubSeq(lv, index + 1, Len(lv))

(* a splice that removes the element after the one asked for *)
SpliceOutNext(lv, index) == SubSeq(lv, 1, index + 1) \o SubSeq(lv, index + 3, Len(lv))

(* Array.prototype.splice(index, 1), index 0-based *)
SpliceOut(lv, index) == SubSeq(lv, 1, index) \o SubSeq(lv, index + 2, Len(lv))

(* The operation has changed this.levels to lv and calls onChange.        *)
(* Returned: the observers have left st (st.raised: one of them raised).   *)
Returned(name, lv, snap, cache, st) ==
  /\ levels' = lv
  /\ enabledLevels' = cache
  /\ closure' = st.cl
  /\ rows' = st.rows
  /\ calls' = st.calls
  /\ op' = Done(name, IF st.raised THEN "observer" ELSE "")
  /\ snapshot' = IF name = "insertBelow" /\ st.raised THEN None ELSE snap
  /\ UNCHANGED <<observers, pres, previousActiveLevel, calc>>

(* this.observers.forEach(fn => {fn();}) on the rebuilt cache *)
Notify(name, lv, snap, cache, raising) ==
  \E nx \in Numerics :
    Returned(name, lv, snap, cache,
             ForEach(observers, cache, raising,
                     [Before EXCEPT !.cl = IF lv = levels THEN closure
                                            ELSE AgedClosure(closure)],
                     nx))

(* this.updateEnabledLevels() has left cache *)
Rebuilt(name, lv, snap, cache) == Notify(name, lv, snap, cache, Raising(cache))

onChange(name, lv, snap) == Rebuilt(name, lv, snap, updateEnabledLevels(lv))

(* an operation that swallows the error and returns *)
ThrewSwallowed(name, error) ==
  /\ op' = Done(name, "")
  /\ calls' = <<>>
  /\ snapshot' = None
  /\ UNCHANGED <<levels, enabledLevels, observers, closure, rows, pres,
                 previousActiveLevel, calc>>

(* The operation raised before changing this.levels. *)
Threw(name, error) ==
  /\ op' = Done(name, error)
  /\ calls' = <<>>
  /\ snapshot' = None
  /\ UNCHANGED <<levels, enabledLevels, observers, closure, rows, pres,
                 previousActiveLevel, calc>>

(* one more operation *)
Called ==
  /\ ops < MaxOps
  /\ ops' = ops + 1

Assign(lv, id, attr, value) ==
  [lv EXCEPT ![findIndex(lv, id)] = [@ EXCEPT ![attr] = value]]

enableLevel(id) ==
  /\ Called
  /\ IF Stored(levels, id)
     THEN onChange("enableLevel", Assign(levels, id, "enabled", 1), None)
     ELSE Threw("enableLevel", "Element not found")
  /\ UNCHANGED lastID

(* a disableLevel that removes the level from the raw list *)
disableLevelByRemoval(id) ==
  /\ Called
  /\ IF Stored(levels, id)
     THEN onChange("disableLevel", SpliceOut(levels, findIndex(levels, id) - 1), None)
     ELSE Threw("disableLevel", "Element not found")
  /\ UNCHANGED lastID

disableLevel(id) ==
  /\ Called
  /\ IF Stored(levels, id)
     THEN onChange("disableLevel", Assign(levels, id, "enabled", 0), None)
     ELSE Threw("disableLevel", "Element not found")
  /\ UNCHANGED lastID

(* What the table's edit box passes: the attribute of the cell and         *)
(* parseFloat of the text typed.                                           *)
Typed ==
  { <<"pressure", NaN>>, <<"pressure", U(700)>>, <<"dewpt", NaN>>, <<"dewpt", U(30)>> }

changeAttribute(id, attr, value) ==
  /\ Called
  /\ IF Stored(levels, id)
     THEN onChange("changeAttribute", Assign(levels, id, attr, value), None)
     ELSE Threw("changeAttribute", "Element not found")
  /\ UNCHANGED lastID

(* the frame an insertBelow leaves behind, with the id it returns *)
Frame == [levels |-> levels, cache |-> enabledLevels, id |-> lastID]

insertBelow(id) ==
  LET index == findIndex(levels, id) - 1
  IN  /\ Called
      /\ lastID < MaxLastID
      /\ IF ~Stored(levels, id)
         THEN Threw("insertBelow", "Element not found") /\ UNCHANGED lastID
         ELSE /\ lastID' = lastID + 1
              /\ IF index = Len(levels) - 1
                 THEN IF index = 0
                      THEN Threw("insertBelow", "TypeError")
                      ELSE onChange("insertBelow",
                                    Append(levels, extrapolate(levels[index + 1],
                                                               levels[index], lastID)),
                                    Frame)
                 ELSE onChange("insertBelow",
                               SpliceIn(levels, index + 1,
                                        interpolate(levels[index + 1], levels[index + 2],
                                                    lastID)),
                               Frame)

insertAbove(id) ==
  LET index == findIndex(levels, id) - 1
  IN  /\ Called
      /\ lastID < MaxLastID
      /\ IF ~Stored(levels, id)
         THEN Threw("insertAbove", "Element not found") /\ UNCHANGED lastID
         ELSE /\ lastID' = lastID + 1
              /\ IF index = 0
                 THEN IF Len(levels) = 1
                      THEN Threw("insertAbove", "TypeError")
                      ELSE onChange("insertAbove",
                                    <<extrapolate(levels[1], levels[2], lastID)>> \o levels,
                                    None)
                 ELSE onChange("insertAbove",
                               SpliceIn(levels, index,
                                        interpolate(levels[index], levels[index + 1],
                                                    lastID)),
                               None)

delete(id) ==
  /\ Called
  /\ UNCHANGED lastID
  /\ IF Stored(levels, id)
     THEN onChange("delete", SpliceOut(levels, findIndex(levels, id) - 1),
                   IF snapshot.id = id THEN snapshot ELSE None)
     ELSE Threw("delete", "Element not found")

(* ---------------------------------------------------------------------- *)
(* SoundingTable.mouseMoveHandler over a cell of level id, observed by     *)
(* LevelDetails.setLevel                                                   *)
(* ---------------------------------------------------------------------- *)
mouseMoveHandler(id) ==
  /\ Called
  /\ Stored(levels, id)
  /\ LET level == levels[findIndex(levels, id)]
     IN  /\ previousActiveLevel # level.pressure \/ IsNaN(level.pressure)
         /\ pres' = level.pressure
         /\ previousActiveLevel' =
              IF LevelDetailsUpdateRaises(enabledLevels, level.pressure)
              THEN previousActiveLevel
              ELSE level.pressure
  /\ UNCHANGED <<levels, enabledLevels, observers, lastID, closure, rows, calls, op,
                 snapshot, calc>>

Next ==
  \/ \E id \in Ids : enableLevel(id)
  \/ \E id \in Ids : disableLevel(id)
  \/ \E id \in Ids, edit \in Typed : changeAttribute(id, edit[1], edit[2])
  \/ \E id \in Ids : insertBelow(id)
  \/ \E id \in Ids : insertAbove(id)
  \/ \E id \in Ids : delete(id)
  \/ \E id \in Ids : mouseMoveHandler(id)

Spec == Init /\ [][Next]_vars

(* ---------------------------------------------------------------------- *)
(* Properties                                                              *)
(* ---------------------------------------------------------------------- *)
Mutations ==
  {"enableLevel", "disableLevel", "changeAttribute", "insertAbove", "insertBelow",
   "delete"}

(* position of a level in the raw list *)
RawIndex(lev) == findIndex(levels, lev.id)

(* no level of the sequence precedes one of lower pressure, and levels of  *)
(* equal pressure keep their raw order                                     *)
Ascending(cache) ==
  \A i, j \in 1..Len(cache) :
    i < j => /\ ~Gt(cache[i].pressure, cache[j].pressure)
             /\ NumEq(cache[i].pressure, cache[j].pressure)
                  => RawIndex(cache[i]) < RawIndex(cache[j])

(* the sequence holds exactly the enabled levels of the raw list *)
HoldsEnabled(cache) ==
  /\ Len(cache) = Len(Filter(levels))
  /\ {cache[i] : i \in 1..Len(cache)} = {levels[i] : i \in {k \in 1..Len(levels) :
                                                             levels[k].enabled = 1}}

(* C1: after construction and after every mutation, and at every observer *)
(* callback, the cache holds exactly the enabled levels of the raw list in *)
(* ascending pressure order, levels of equal pressure in raw order.        *)
C1_CacheSortedAndFresh ==
  /\ HoldsEnabled(enabledLevels)
  /\ Ascending(enabledLevels)
  /\ \A k \in 1..Len(calls) : HoldsEnabled(calls[k].seen) /\ Ascending(calls[k].seen)

(* C2: every successful mutation rebuilds the cache and then invokes every *)
(* registered observer exactly once, in registration order, before it      *)
(* returns.                                                                *)
C2_ObserversNotifiedInOrder ==
  (op.name \in Mutations /\ op.raised = "") =>
    /\ Len(calls) = Len(observers)
    /\ \A k \in 1..Len(calls) :
         /\ calls[k].observer = observers[k]
         /\ calls[k].seen = updateEnabledLevels(levels)

C2_Witness ==
  /\ op.name = "insertBelow"
  /\ op.raised = ""
  /\ Len(calls) = Len(observers)
  /\ Len(enabledLevels) > Len(snapshot.cache)

(* C3: enableLevel, disableLevel, insertAbove, insertBelow and delete      *)
(* never raise when called with the id of a stored level ("Element not     *)
(* found" is what they raise for an id that is not stored).                *)
C3_StoredIdNeverFails ==
  op.name \in {"enableLevel", "disableLevel", "insertAbove", "insertBelow", "delete"}
    => op.raised \in {"", "Element not found"}

(* C4: after a mutation every displayed index value is computed from the   *)
(* current profile state, none from an earlier one.                        *)
C4_NoStaleIndexValue ==
  op.name \in Mutations =>
    \A i \in 1..Len(rows) : ~rows[i].stale

(* the indices whose function reads nothing but the profile *)
ProfileOnly ==
  {i \in 1..Len(Indices) :
     Indices[i].kind \in {"cape", "li", "pw", "fixed", "showalter", "shear", "stm",
                          "sreh", "ehi"}}

(* C5: one pass of printIndices leaves one row per index, in definition    *)
(* order; an index that raises is shown as "Undefined" and every other     *)
(* index is still computed and shown.                                      *)
C5_OneRowPerIndex ==
  /\ Len(rows) = Len(Indices)
  /\ \A i \in 1..Len(rows) : rows[i].name = Indices[i].name
  /\ \A i \in ProfileOnly :
       (rows[i].value = "Undefined") = ProfileRaises(i, enabledLevels)

C5_Witness ==
  /\ op.name \in Mutations
  /\ \E i, j, k \in ProfileOnly :
       /\ i < j /\ j < k
       /\ rows[i].value = "Undefined"
       /\ rows[j].value = "number"
       /\ rows[k].value = "Undefined"

(* pressures of the enabled levels that are numbers *)
EnabledPressures == {enabledLevels[i].pressure : i \in 1..Len(enabledLevels)} \ {NaN}

MinPressure == CHOOSE p \in EnabledPressures : \A q \in EnabledPressures : p <= q
MaxPressure == CHOOSE p \in EnabledPressures : \A q \in EnabledPressures : q <= p

(* every enabled pressure is a number *)
NumericPressures == \A i \in 1..Len(enabledLevels) : ~IsNaN(enabledLevels[i].pressure)

(* every enabled pressure is a number and no two enabled levels share one *)
DistinctPressures ==
  \A i, j \in 1..Len(enabledLevels) :
    /\ ~IsNaN(enabledLevels[i].pressure)
    /\ i # j => enabledLevels[i].pressure # enabledLevels[j].pressure

(* the other level of the pair getValueAt interpolates in at the pressure  *)
(* of the k-th level of a cache of distinct pressures                      *)
Partner(k) == IF k = 1 THEN enabledLevels[2] ELSE enabledLevels[k - 1]

Probes ==
  UNION {{p - 1, p, p + 1} : p \in EnabledPressures} \cup {U(1), U(2000)}

(* C7: getValueAt raises for every pressure strictly below the smallest or *)
(* strictly above the largest enabled pressure.                            *)
C7_RaisesOutsideRange ==
  EnabledPressures # {} =>
    \A p \in Probes, attr \in Attributes :
      (p < MinPressure \/ p > MaxPressure) => ~getValueAt(enabledLevels, p, attr).ok

C7_Witness ==
  /\ op.name \in Mutations
  /\ Len(enabledLevels) >= 2
  /\ getValueAt(enabledLevels, MinPressure, "temp").ok
  /\ ~getValueAt(enabledLevels, MinPressure - 1, "temp").ok
  /\ ~getValueAt(enabledLevels, MaxPressure + 1, "temp").ok

(* C8: insertBelow(id) followed by delete of the id it returned leaves the *)
(* raw list (order, attributes, flags) and the cache, hence every query,   *)
(* as they were before the insertion.                                      *)
C8_InsertThenDeleteRestores ==
  (op.name = "delete" /\ snapshot # None) =>
    /\ levels = snapshot.levels
    /\ enabledLevels = snapshot.cache
    /\ \A p \in Probes, attr \in Attributes :
         getValueAt(enabledLevels, p, attr) = getValueAt(snapshot.cache, p, attr)

C8_Witness ==
  /\ op.name = "delete"
  /\ snapshot # None
  /\ Len(levels) >= 2

(* the stored level with the id *)
find(lv, id) == lv[findIndex(lv, id)]

(* disableLevel(id) has left the raw list as it was but for the flag of    *)
(* the level with the id                                                   *)
OnlyFlagCleared(id) ==
  /\ Len(levels') = Len(levels)
  /\ \A i \in 1..Len(levels) :
       levels'[i] = IF levels[i].id = id
                    THEN [levels[i] EXCEPT !.enabled = 0]
                    ELSE levels[i]

(* no level of the cache has the id *)
NotCached(cache, id) == \A i \in 1..Len(cache) : cache[i].id # id

(* enabled levels other than the one with the id lie on both sides of p *)
Bracketed(cache, id, p) ==
  /\ \E i \in 1..Len(cache) : cache[i].id # id /\ Le(cache[i].pressure, p)
  /\ \E i \in 1..Len(cache) : cache[i].id # id /\ Le(p, cache[i].pressure)

C10_FirstIsLowestPressure ==
  (HasFirst(enabledLevels) /\ EnabledPressures # {}) =>
    /\ first(enabledLevels).pressure = MinPressure
    /\ last(enabledLevels).pressure = MaxPressure

(* C10 amended: when the enabled pressures are numbers, first() is the     *)
(* enabled level of highest pressure (the surface) and last() the enabled  *)
(* level of lowest pressure (the top).                                     *)
C10_FirstIsHighestPressure ==
  (HasFirst(enabledLevels) /\ NumericPressures) =>
    /\ first(enabledLevels).pressure = MaxPressure
    /\ last(enabledLevels).pressure = MinPressure

C10_Witness ==
  /\ op.name = "enableLevel"
  /\ op.raised = ""
  /\ NumericPressures
  /\ Len(enabledLevels) >= 3
  /\ first(enabledLevels).pressure = MaxPressure
  /\ MinPressure < MaxPressure

(* ---------------------------------------------------------------------- *)
(* Iteration over a Sounding                                               *)
(* ---------------------------------------------------------------------- *)
(* an iterator that walks the cache *)
iteratorSorted(lv) == updateEnabledLevels(lv)

(* Sounding[Symbol.iterator]: for (const level of this.levels), a level is *)
(* yielded if (level.enabled).  The levels yielded, in order.              *)
iterator(lv) == Filter(lv)

(* Sounding.forEach: the arguments of the successive callbackfn calls *)
forEach(lv) == Filter(lv)

(* the levels of the sequence are met in the order of the raw list *)
RawOrder(visit) ==
  \A i, j \in 1..Len(visit) : i < j => RawIndex(visit[i]) < RawIndex(visit[j])

(* C11 as stated: the iterator and forEach visit exactly the enabled       *)
(* levels, each once, in ascending pressure order, whatever the raw order. *)
C11_IterationAscending ==
  \A visit \in {iterator(levels), forEach(levels)} :
    HoldsEnabled(visit) /\ Ascending(visit)

(* C11 amended: the iterator and forEach visit exactly the enabled levels, *)
(* each once, in the order of the raw list, whatever their pressures.      *)
C11_IterationRawOrder ==
  \A visit \in {iterator(levels), forEach(levels)} :
    HoldsEnabled(visit) /\ RawOrder(visit)

C11_Witness ==
  /\ op.name \in Mutations
  /\ op.raised = ""
  /\ Len(iterator(levels)) >= 2
  /\ Len(iterator(levels)) < Len(levels)
  /\ iterator(levels) # enabledLevels
  /\ forEach(levels) = iterator(levels)

(* ---------------------------------------------------------------------- *)
(* Inserted levels                                                         *)
(* ---------------------------------------------------------------------- *)
(* n is the mean of a and b as JavaScript computes (a + b) / 2 *)
IsMean(n, a, b) ==
  IF IsNaN(a) \/ IsNaN(b) THEN IsNaN(n) ELSE ~IsNaN(n) /\ 2 * n = a + b

(* n is 2 * a - b *)
IsBeyond(n, a, b) ==
  IF IsNaN(a) \/ IsNaN(b) THEN IsNaN(n) ELSE ~IsNaN(n) /\ n + b = 2 * a

MeanOf(new, a, b) == \A attr \in Attributes : IsMean(new[attr], a[attr], b[attr])
BeyondOf(new, a, b) == \A attr \in Attributes : IsBeyond(new[attr], a[attr], b[attr])

(* b is a neighbour of a in pressure among the stored levels lv: both      *)
(* pressures are numbers and no other stored level lies strictly between   *)
PressureNeighbor(lv, a, b) ==
  /\ a.id # b.id
  /\ ~IsNaN(a.pressure) /\ ~IsNaN(b.pressure)
  /\ ~\E k \in 1..Len(lv) :
        /\ lv[k].id \notin {a.id, b.id}
        /\ \/ Lt(a.pressure, lv[k].pressure) /\ Lt(lv[k].pressure, b.pressure)
           \/ Lt(b.pressure, lv[k].pressure) /\ Lt(lv[k].pressure, a.pressure)

(* the step has stored one more level, the one with the id handed out *)
Inserted ==
  /\ Len(levels') = Len(levels) + 1
  /\ Stored(levels', lastID)

(* the level a step has inserted *)
InsertedLevel == levels'[findIndex(levels', lastID)]

(* the raw list after the step is the one before it with the new level at  *)
(* raw position pos                                                        *)
InsertedAt(pos) ==
  /\ findIndex(levels', lastID) = pos
  /\ SpliceOut(levels', pos - 1) = levels
  /\ InsertedLevel.enabled = 1

(* C12 as stated: the level inserted by insertAbove(id) / insertBelow(id)  *)
(* has, in each data attribute, the mean of the target and a neighbour of  *)
(* the target in pressure, or, when the target is the first / last level   *)
(* of the raw list, 2*a - b for the target a and a neighbour b in pressure *)
(* (checked where every stored pressure is a number).                      *)
C12_InsertedBetweenPressureNeighbors ==
  [][\A id \in Ids :
       (/\ Stored(levels, id)
        /\ \A k \in 1..Len(levels) : ~IsNaN(levels[k].pressure)
        /\ insertBelow(id) \/ insertAbove(id)
        /\ Inserted) =>
         \E k \in 1..Len(levels) :
           /\ PressureNeighbor(levels, find(levels, id), levels[k])
           /\ \/ MeanOf(InsertedLevel, find(levels, id), levels[k])
              \/ BeyondOf(InsertedLevel, find(levels, id), levels[k])]_vars

(* C12 amended: the neighbour is the one in raw order, enabled or not.     *)
(* insertBelow(id) stores, right after the target, the mean of the target  *)
(* and the next level of the raw list, or 2*a - b for the target a and the *)
(* previous level b when the target is the last one; insertAbove(id)       *)
(* stores, right before the target, the mean of the previous level and the *)
(* target, or 2*a - b for the target a and the next level b when the       *)
(* target is the first one.  The rest of the raw list is unchanged.  With  *)
(* a single stored level nothing is inserted and the call raises.          *)
C12_InsertedBetweenRawNeighbors ==
  [][\A id \in Ids :
       LET i == findIndex(levels, id)
       IN  /\ (Stored(levels, id) /\ insertBelow(id)) =>
                IF Len(levels) = 1 THEN levels' = levels /\ op'.raised = "TypeError"
                ELSE /\ Inserted
                     /\ InsertedAt(i + 1)
                     /\ IF i = Len(levels)
                        THEN BeyondOf(InsertedLevel, levels[i], levels[i - 1])
                        ELSE MeanOf(InsertedLevel, levels[i], levels[i + 1])
           /\ (Stored(levels, id) /\ insertAbove(id)) =>
                IF Len(levels) = 1 THEN levels' = levels /\ op'.raised = "TypeError"
                ELSE /\ Inserted
                     /\ InsertedAt(i)
                     /\ IF i = 1
                        THEN BeyondOf(InsertedLevel, levels[1], levels[2])
                        ELSE MeanOf(InsertedLevel, levels[i - 1], levels[i])]_vars

(* an insertAbove has stored the mean of two raw neighbours that are not   *)
(* neighbours in pressure                                                  *)
C12_Witness ==
  /\ op.name = "insertAbove"
  /\ op.raised = ""
  /\ Stored(levels, lastID - 1)
  /\ LET pos == findIndex(levels, lastID - 1)
     IN  /\ 1 < pos /\ pos < Len(levels)
         /\ MeanOf(levels[pos], levels[pos - 1], levels[pos + 1])
         /\ ~IsNaN(levels[pos].pressure)
         /\ ~PressureNeighbor(SpliceOut(levels, pos - 1), levels[pos - 1], levels[pos + 1])

(* ---------------------------------------------------------------------- *)
(* Level ids                                                               *)
(* ---------------------------------------------------------------------- *)
IdsOf(lv) == [i \in 1..Len(lv) |-> lv[i].id]

(* no two levels of lv share an id, and every id is one the counter has    *)
(* already handed out                                                      *)
IdsDistinct(lv, counter) ==
  /\ \A i, j \in 1..Len(lv) : i # j => lv[i].id # lv[j].id
  /\ \A i \in 1..Len(lv) : 0 <= lv[i].id /\ lv[i].id < counter

(* the ids of lv that are also ids of other, in the order of lv *)
RECURSIVE Surviving(_, _)
Surviving(lv, other) ==
  IF lv = <<>> THEN <<>>
  ELSE IF Stored(other, Head(lv).id)
       THEN <<Head(lv).id>> \o Surviving(Tail(lv), other)
       ELSE Surviving(Tail(lv), other)

(* C13: stored levels have pairwise distinct ids; a level keeps its id     *)
(* (the levels that stay stored keep their ids and their relative order);  *)
(* ids are handed out in strictly increasing order (a level that appears   *)
(* has an id not below the counter Level.lastID, which is above every id   *)
(* handed out before and never decreases), so the id of a deleted level is *)
(* never given to a later one.  Operations: construction, the six          *)
(* mutations with the arguments the table passes, and mouse moves.         *)
C13_IdsUniqueStableMonotone ==
  [][/\ IdsDistinct(levels, lastID)
     /\ IdsDistinct(levels', lastID')
     /\ lastID' >= lastID
     /\ \A k \in 1..Len(levels') :
          ~Stored(levels, levels'[k].id) => levels'[k].id >= lastID
     /\ Surviving(levels', levels) = Surviving(levels, levels')
     /\ op'.name \notin {"insertAbove", "insertBelow", "delete"}
          => IdsOf(levels') = IdsOf(levels)]_vars

(* a level has been inserted after one was deleted *)
C13_Witness ==
  /\ op.name \in {"insertAbove", "insertBelow"}
  /\ Stored(levels, lastID - 1)
  /\ \E id \in 0..(lastID - 2) : ~Stored(levels, id)

(* ---------------------------------------------------------------------- *)
(* Calls with an id that is not stored                                     *)
(* ---------------------------------------------------------------------- *)
(* one of the six mutations is called with the id *)
MutationWith(id) ==
  \/ enableLevel(id)
  \/ disableLevel(id)
  \/ \E edit \in Typed : changeAttribute(id, edit[1], edit[2])
  \/ insertAbove(id)
  \/ insertBelow(id)
  \/ delete(id)

(* C14: a mutation called with an id that matches no stored level raises   *)
(* "Element not found", leaves the raw list (with every enabled flag), the *)
(* cache and the id counter as they were, and invokes no observer: the     *)
(* index table and the level details are not touched.                      *)
C14_UnknownIdRaisesUntouched ==
  [][\A id \in Ids :
       (~Stored(levels, id) /\ MutationWith(id)) =>
         /\ op'.raised = "Element not found"
         /\ levels' = levels
         /\ enabledLevels' = enabledLevels
         /\ lastID' = lastID
         /\ calls' = <<>>
         /\ rows' = rows
         /\ closure' = closure
         /\ pres' = pres]_vars

(* a delete of a level that had been deleted before *)
C14_Witness ==
  /\ op.name = "delete"
  /\ op.raised = "Element not found"
  /\ calls = <<>>
  /\ Len(levels) < lastID
  /\ enabledLevels = updateEnabledLevels(levels)

(* ---------------------------------------------------------------------- *)
(* Export and re-import                                                    *)
(* ---------------------------------------------------------------------- *)
(* exportData: the stored levels as raw-level records (LevelSource), in    *)
(* raw order.                                                              *)
exportData(lv) ==
  [i \in 1..Len(lv) |->
     [pressure |-> lv[i].pressure, height |-> lv[i].height, temp |-> lv[i].temp,
      dewpt |-> lv[i].dewpt, winddir |-> lv[i].winddir, windspd |-> lv[i].windspd]]

(* C15: constructing a profile from the exported records reproduces, for   *)
(* every level, the enabled flag the level is left with.                   *)
C15_EnabledFlagsRoundTrip ==
  /\ Len(Sounding(exportData(levels))) = Len(levels)
  /\ \A i \in 1..Len(levels) :
       Sounding(exportData(levels))[i].enabled = levels[i].enabled

(* ====================================================================== *)
(* The functions of diagram.ts and numerical.ts applied on their own       *)
(* ====================================================================== *)
(* No profile loaded and no observer registered: only calc changes, once,  *)
(* to the function applied, its arguments and what it returned.            *)
InitFn ==
  /\ levels = <<>>
  /\ enabledLevels = <<>>
  /\ observers = <<>>
  /\ lastID = 0
  /\ closure = [CAPE |-> Unassigned, CIN |-> Unassigned, LFC |-> Unassigned,
                EL |-> Unassigned, inflow |-> Unassigned]
  /\ rows = <<>>
  /\ pres = NaN
  /\ previousActiveLevel = NaN
  /\ calls = <<>>
  /\ op = Done("none", "")
  /\ ops = 0
  /\ snapshot = None
  /\ calc = Idle

Parked == <<levels, enabledLevels, observers, lastID, closure, rows, pres,
            previousActiveLevel, calls, op, ops, snapshot>>

(* pressures of the records handed to the constructor: unparsed, below,    *)
(* at, just above and well above the threshold                             *)
ConstructPressures == {NaN, U(200), U(EnableAbove), U(EnableAbove) + 1, U(1000)}

SourceAt(p) == [LevelSource(1000) EXCEPT !.pressure = p]

ConstructSources ==
  UNION { [1..n -> {SourceAt(p) : p \in ConstructPressures}] : n \in 1..SourceLen }

(* new Sounding(src) *)
newSounding ==
  /\ calc = Idle
  /\ \E src \in ConstructSources :
       calc' = [fn |-> "Sounding", in |-> src, out |-> Sounding(src)]
  /\ UNCHANGED Parked


(* ---------------------------------------------------------------------- *)
(* C16: in a newly constructed profile a level is enabled exactly when its *)
(* pressure is a number greater than 300 hPa; a level at exactly 300 hPa   *)
(* or with a not-a-number pressure starts disabled.                        *)
(* ---------------------------------------------------------------------- *)
C16_EnabledIffAbove300 ==
  calc.fn = "Sounding" =>
    /\ Len(calc.out) = Len(calc.in)
    /\ \A i \in 1..Len(calc.in) :
         /\ calc.out[i].pressure = calc.in[i].pressure
         /\ (calc.out[i].enabled = 1) <=>
              (calc.in[i].pressure # NaN /\ calc.in[i].pressure > 300 * Unit)

C16_Witness ==
  /\ calc.fn = "Sounding"
  /\ \E i, j, k \in 1..Len(calc.in) :
       /\ calc.in[i].pressure = 300 * Unit /\ calc.out[i].enabled = 0
       /\ calc.in[j].pressure = NaN /\ calc.out[j].enabled = 0
       /\ calc.in[k].pressure = (300 * Unit) + 1 /\ calc.out[k].enabled = 1

(* ---------------------------------------------------------------------- *)
(* C17: an attribute stored as the not-a-number sentinel is treated as     *)
(* absent data: getValueAt over enabled levels of which one holds NaN for  *)
(* the attribute answers as the remaining levels do without that level,    *)
(* whenever they have an answer.                                           *)
(* ---------------------------------------------------------------------- *)
(* pressures looked up: between the levels of the profiles and at them *)
Lookups == {U(900), U(775), U(600)} \cup {enabledLevels[i].pressure : i \in 1..Len(enabledLevels)}

C17_NaNEntryAsIfMissing ==
  \A i \in 1..Len(enabledLevels), prop \in Attributes, p \in Lookups \ {NaN} :
    LET without == getValueAt(SpliceOut(enabledLevels, i - 1), p, prop)
    IN  (IsNaN(enabledLevels[i][prop]) /\ IsNumber(without)) =>
          getValueAt(enabledLevels, p, prop) = without

(* ---------------------------------------------------------------------- *)
(* numerical.ts: computeMostUnstable                                       *)
(* ---------------------------------------------------------------------- *)
(* the most scanned pressures of a computeMostUnstable call *)
MaxScan == 3

(* p -= 5 *)
ScanStep == 5

ScanBegin == 1000

(* pEnd: on a scanned pressure, and between two of them *)
ScanEnds ==
  {ScanBegin - (ScanStep * k) : k \in 0..(MaxScan - 1)} \cup {ScanBegin - (ScanStep + 2)}

(* for (let p = pBegin; p >= pEnd; p -= 5) *)
Scanned(pBegin, pEnd) ==
  {p \in pEnd..pBegin : (pBegin - p) % ScanStep = 0}

(* equivalentPotentialTemperature(fT(p), fTd(p), p) in Celsius, as the     *)
(* scan finds it: below, at and above 0, and NaN where fT(p) is NaN        *)
ThetaEs == {NaN, -10, 0, 10, 20}

(* thetae > largest with largest = Number.MIN_VALUE, the smallest positive *)
(* double: of the values above exactly the positive ones exceed it         *)
ExceedsMinValue(thetae) == Gt(thetae, 0)

(* the loop from pressure p on, largest and level as the passes before     *)
(* left them; fresh: largest is still Number.MIN_VALUE                     *)
RECURSIVE ScanFrom(_, _, _, _, _, _)
ScanFrom(thetae, p, pEnd, fresh, largest, level) ==
  IF p < pEnd THEN level
  ELSE IF (IF fresh THEN ExceedsMinValue(thetae[p]) ELSE Gt(thetae[p], largest))
       THEN ScanFrom(thetae, p - ScanStep, pEnd, FALSE, thetae[p], p)
       ELSE ScanFrom(thetae, p - ScanStep, pEnd, fresh, largest, level)

computeMostUnstable(thetae, pBegin, pEnd) ==
  ScanFrom(thetae, pBegin, pEnd, TRUE, 0, NaN)

mostUnstable ==
  /\ calc = Idle
  /\ \E pEnd \in ScanEnds :
       \E thetae \in [Scanned(ScanBegin, pEnd) -> ThetaEs] :
         calc' = [fn |-> "computeMostUnstable", thetae |-> thetae,
                  pBegin |-> ScanBegin, pEnd |-> pEnd,
                  out |-> computeMostUnstable(thetae, ScanBegin, pEnd)]
  /\ UNCHANGED Parked

(* ---------------------------------------------------------------------- *)
(* numerical.ts: computeCAPE.  Temperatures in hundredths of a degree      *)
(* Celsius, pressures in hPa, vapour pressures in hundredths of a hPa,     *)
(* thicknesses in decimetres, energies in 1/100000 J/kg.                   *)
(* ---------------------------------------------------------------------- *)
(* the most pressure steps between Pbegin and Pend *)
MaxAscent == 3

(* Pstep: number = 1 *)
Pstep == 1

(* 273.15 *)
Kelvin == 27315

(* g = 9.8076, in 1/10000 m/s^2 *)
Gravity == 98076

CapeBegin == 1000

(* fT and fTd: 10.00, 14.92 and 15.00 Celsius; 14.92 is what liftDryParcel *)
(* yields at 999 hPa for a parcel of 15.00 at 1000 hPa                     *)
Temps == {1000, 1492, 1500}

(* 6.11 * 10**((7.5 * Td) / (237.3 + Td)): 12.28 at 10 Celsius, 17.06 at   *)
(* 15 Celsius, and the chord through the two elsewhere                     *)
vaporPressure(Td) == 1228 + (((Td - 1000) * 478) \div 500)

(* (T + 273.15) / (1 - 0.379 * (e / Psta)) - 273.15, computed as           *)
(* TK + TK * x / (Psta - x) - 273.15 with x = 0.379 * e                    *)
virtualTemperature(T, Td, Psta) ==
  LET x == (379 * vaporPressure(Td)) \div 1000
      TK == T + Kelvin
  IN  IF IsNaN(T) \/ IsNaN(Td) THEN NaN
      ELSE (TK + ((TK * x) \div ((Psta * 100) - x))) - Kelvin

(* hypsometricEquation(Pbottom, Ptop, fT, fTd) near 1000 hPa and 289 K:    *)
(* (287 / 9.8076) * 289.5 / 999.5 = 8.5 m for each hPa, none for Pbottom = Ptop *)
LayerDepth == 85

hypsometricEquation(Pbottom, Ptop) == LayerDepth * (Pbottom - Ptop)

(* the loop condition of the two generators that keeps no step above 0 *)
ContinuesToPend(P, Pend, deltaP) == P >= Pend

(* while (P >= Pend && P >= deltaP) *)
Continues(P, Pend, deltaP) == P >= Pend /\ P >= deltaP

(* the passes that loop makes from Pinitial, deltaP > 0 *)
Passes(Pinitial, Pend, deltaP) ==
  Cardinality({k \in 0..(((Pinitial - Pend) \div deltaP) + 1) :
                 Continues(Pinitial - (k * deltaP), Pend, deltaP)})

(* TK / (Pinitial/P)**0.286 - 273.15, to first order in (Pinitial - P):    *)
(* TK - 0.286 * TK * (Pinitial - P) / Pinitial - 273.15                    *)
(* at P = 0 the quotient Pinitial/P is Infinity and the pair carries        *)
(* 0 - 273.15                                                              *)
DryAdiabat(Tinitial, Pinitial, P) ==
  IF IsNaN(Tinitial) THEN NaN
  ELSE IF P = 0 THEN 0 - Kelvin
  ELSE LET TK == Tinitial + Kelvin
       IN  (TK - (((286 * (Pinitial - P)) * (TK \div 10)) \div (100 * Pinitial))) - Kelvin

(* function* liftDryParcel: the pairs [P, T] it yields *)
liftDryParcel(Tinitial, Pinitial, Pend, deltaP) ==
  [k \in 1..Passes(Pinitial, Pend, deltaP) |->
     [P |-> Pinitial - (k * deltaP),
      T |-> DryAdiabat(Tinitial, Pinitial, Pinitial - (k * deltaP))]]

(* moistAdiabaticLapseRate(T, P), in K per km: between 4 and 6 over the    *)
(* temperatures and pressures above                                        *)
MoistLapse == 5

moistAdiabaticLapseRate(T, P) == MoistLapse

(* -Infinity: what T -= lapseRate * deltaZ leaves when the layer reaches   *)
(* up to P = 0, where hypsometricEquation takes the logarithm of P / 0      *)
NegInfinity == -2000000

(* one pass of liftSaturatedParcel: T -= lapseRate * deltaZ; P -= deltaP *)
SaturatedPass(s, deltaP) ==
  [P |-> s.P - deltaP,
   T |-> IF IsNaN(s.T) THEN NaN
         ELSE IF s.P - deltaP = 0 THEN NegInfinity
         ELSE s.T - ((moistAdiabaticLapseRate(s.T, s.P)
                        * hypsometricEquation(s.P, s.P - deltaP)) \div 100)]

(* the pairs of n passes from s on *)
RECURSIVE SaturatedPairs(_, _, _)
RECURSIVE ThenPairs(_, _, _)
ThenPairs(left, n, deltaP) == left \o SaturatedPairs(left[Len(left)], n, deltaP)

SaturatedPairs(s, n, deltaP) ==
  IF n = 0 THEN <<>>
  ELSE IF n = 1 THEN <<SaturatedPass(s, deltaP)>>
  ELSE ThenPairs(SaturatedPairs(s, n \div 2, deltaP), n - (n \div 2), deltaP)

(* function* liftSaturatedParcel: the pairs [P, T] it yields *)
liftSaturatedParcel(Tinitial, Pinitial, Pend, deltaP) ==
  SaturatedPairs([P |-> Pinitial, T |-> Tinitial], Passes(Pinitial, Pend, deltaP), deltaP)

(* a liftParcel that seeds the moist ascent with Tinitial when the dry     *)
(* ascent yields nothing                                                   *)
liftParcelSeeded(Tinitial, Pinitial, Pend, LCL, deltaP) ==
  LET dry == liftDryParcel(Tinitial, Pinitial, LCL, deltaP)
      lastT == IF Len(dry) = 0 THEN Tinitial ELSE dry[Len(dry)].T
  IN  dry \o liftSaturatedParcel(lastT, LCL, Pend, deltaP)

(* a liftParcel whose moist ascent starts over from Tinitial *)
liftParcelFromTinitial(Tinitial, Pinitial, Pend, LCL, deltaP) ==
  liftDryParcel(Tinitial, Pinitial, LCL, deltaP)
    \o liftSaturatedParcel(Tinitial, LCL, Pend, deltaP)

(* function* liftParcel: let lastT = NaN; the dry pairs, lastT the         *)
(* temperature of the last one; yield* liftSaturatedParcel(lastT, LCL, ..) *)
liftParcel(Tinitial, Pinitial, Pend, LCL, deltaP) ==
  LET dry == liftDryParcel(Tinitial, Pinitial, LCL, deltaP)
      lastT == IF Len(dry) = 0 THEN NaN ELSE dry[Len(dry)].T
  IN  dry \o liftSaturatedParcel(lastT, LCL, Pend, deltaP)

(* liftedCondensationLevel(P, T, Td), T >= Td, to the hPa:                 *)
(* 1000 * (TL/Theta)**3.48 is 1000 at 1000 hPa and 850.65 at 850 hPa for   *)
(* T = Td, 998.8 and 849.6 for 15.00 over 14.92, 928 and 789 for 15 over 10 *)
liftedCondensationLevel(P, T, Td) ==
  LET saturated == IF P < 1000 THEN P + 1 ELSE P
  IN  IF T = Td THEN saturated
      ELSE IF T - Td < 100 THEN saturated - 1
      ELSE saturated - 72

(* the pairs computeCAPE reads: 'if (P < Pend) break' *)
Visited(pairs, Pend) ==
  LET stop == {k \in 1..Len(pairs) : pairs[k].P < Pend}
  IN  IF stop = {} THEN pairs
      ELSE SubSeq(pairs, 1, (CHOOSE k \in stop : \A j \in stop : k <= j) - 1)

(* newCAPE of the step at pressure P: parcel at Tp, environment T and Td *)
newCAPE(Tp, T, Td, P, prevPressure, LCL) ==
  LET Tv == virtualTemperature(T, Td, P)
      Tdp == IF P >= LCL THEN Tp ELSE Td
      Tvp == virtualTemperature(Tp, Tdp, P)
  IN  IF IsNaN(Tv) \/ IsNaN(Tvp) THEN NaN
      ELSE ((Gravity * (Tvp - Tv)) \div (Tv + Kelvin)) * hypsometricEquation(prevPressure, P)

(* the newCAPE of every step: fT and fTd are env[P].T and env[P].Td *)
Contributions(env, pairs, Pbegin, LCL) ==
  [k \in 1..Len(pairs) |->
     newCAPE(pairs[k].T, env[pairs[k].P].T, env[pairs[k].P].Td, pairs[k].P,
             IF k = 1 THEN Pbegin ELSE pairs[k - 1].P, LCL)]

(* a loop body that keeps the first LFC it has set *)
CapeStepFirstLFC(acc, c, P) ==
  IF Gt(c, 0)
  THEN [acc EXCEPT !.CAPE = @ + c,
                   !.LFC = IF acc.positive \/ ~IsNaN(acc.LFC) THEN @ ELSE P,
                   !.positive = TRUE]
  ELSE IF Lt(c, 0)
  THEN [acc EXCEPT !.currentCIN = @ + c,
                   !.EL = IF acc.positive THEN P ELSE @,
                   !.CIN = IF acc.positive THEN acc.currentCIN + c ELSE @,
                   !.positive = FALSE]
  ELSE acc

(* one pass of the loop body on the sums *)
CapeStep(acc, c, P) ==
  IF Gt(c, 0)
  THEN [acc EXCEPT !.CAPE = @ + c,
                   !.LFC = IF acc.positive THEN @ ELSE P,
                   !.positive = TRUE]
  ELSE IF Lt(c, 0)
  THEN [acc EXCEPT !.currentCIN = @ + c,
                   !.EL = IF acc.positive THEN P ELSE @,
                   !.CIN = IF acc.positive THEN acc.currentCIN + c ELSE @,
                   !.positive = FALSE]
  ELSE acc

RECURSIVE CapeLoop(_, _, _, _)
CapeLoop(cs, pairs, k, acc) ==
  IF k > Len(cs) THEN acc
  ELSE CapeLoop(cs, pairs, k + 1, CapeStep(acc, cs[k], pairs[k].P))

(* the parcel computeCAPE lifts, as far as it reads it *)
Ascent(env, Pbegin, Pend) ==
  Visited(liftParcel(env[Pbegin].T, Pbegin, Pend,
                     liftedCondensationLevel(Pbegin, env[Pbegin].T, env[Pbegin].Td),
                     Pstep), Pend)

(* the loop of computeCAPE over the pairs it reads: [CAPE, CIN, LFC, EL] *)
Summed(cs, pairs) ==
  LET acc == CapeLoop(cs, pairs, 1,
                      [CAPE |-> 0, CIN |-> 0, currentCIN |-> 0, LFC |-> NaN,
                       EL |-> NaN, positive |-> FALSE])
  IN  [CAPE |-> acc.CAPE, CIN |-> acc.CIN, LFC |-> acc.LFC, EL |-> acc.EL]

computeCAPE(env, Pbegin, Pend) ==
  Summed(Contributions(env, Ascent(env, Pbegin, Pend), Pbegin,
                       liftedCondensationLevel(Pbegin, env[Pbegin].T, env[Pbegin].Td)),
         Ascent(env, Pbegin, Pend))

(* the call with what it read on the way *)
Traced(env, Pbegin, Pend, LCL, pairs, cs) ==
  [fn |-> "computeCAPE", env |-> env, Pbegin |-> Pbegin, Pend |-> Pend, LCL |-> LCL,
   parcel |-> [k \in 1..Len(pairs) |-> pairs[k].T],
   ps |-> [k \in 1..Len(pairs) |-> pairs[k].P],
   newCAPE |-> cs,
   out |-> computeCAPE(env, Pbegin, Pend)]

(* fT(P) and fTd(P) of a profile: the dew point is not above the temperature *)
Air == {a \in [T : Temps, Td : Temps] : a.Td <= a.T}

(* Pbegin: first().pressure of a profile at sea level and of one on high ground *)
CapeBegins == {CapeBegin, 850}

cape ==
  /\ calc = Idle
  /\ \E Pbegin \in CapeBegins :
       \E env \in [(Pbegin - (MaxAscent * Pstep))..Pbegin -> Air] :
         calc' = Traced(env, Pbegin, Pbegin - (MaxAscent * Pstep),
                        liftedCondensationLevel(Pbegin, env[Pbegin].T, env[Pbegin].Td),
                        Ascent(env, Pbegin, Pbegin - (MaxAscent * Pstep)),
                        Contributions(env, Ascent(env, Pbegin, Pbegin - (MaxAscent * Pstep)),
                                      Pbegin,
                                      liftedCondensationLevel(Pbegin, env[Pbegin].T,
                                                              env[Pbegin].Td)))
  /\ UNCHANGED Parked

(* ---------------------------------------------------------------------- *)
(* numerical.ts: computeLiftedIndex, computeShowalter                      *)
(* ---------------------------------------------------------------------- *)
(* liftParcel(fT(Pbegin), Pbegin, 500, LCL, 1) *)
LiftTop == 500

ShowalterBegin == 850

(* fT(500) *)
Temps500 == {-2000, -1000}

(* the pair the loop 'for (const [_, T] of liftParcel(..)) Tv500 = T' ends *)
(* on; Tv500 stays NaN when nothing is yielded                             *)
LastPair(pairs) ==
  IF Len(pairs) = 0 THEN [P |-> NaN, T |-> NaN] ELSE pairs[Len(pairs)]

(* fT(500) - Tv500 *)
Minus(a, b) == IF IsNaN(a) \/ IsNaN(b) THEN NaN ELSE a - b

Lifted500(air, Pbegin) ==
  LastPair(liftParcel(air.T, Pbegin, LiftTop,
                      liftedCondensationLevel(Pbegin, air.T, air.Td), Pstep))

(* air: fT and fTd at Pbegin *)
computeLiftedIndex(air, fT500, Pbegin) == Minus(fT500, Lifted500(air, Pbegin).T)

(* air: fT and fTd at 850 hPa *)
computeShowalter(air, fT500) == Minus(fT500, Lifted500(air, ShowalterBegin).T)

liftedIndex ==
  /\ calc = Idle
  /\ \E Pbegin \in CapeBegins, air \in Air, fT500 \in Temps500 :
       calc' = [fn |-> "computeLiftedIndex", air |-> air, fT500 |-> fT500,
                Pbegin |-> Pbegin, last |-> Lifted500(air, Pbegin),
                out |-> computeLiftedIndex(air, fT500, Pbegin)]
  /\ UNCHANGED Parked

showalter ==
  /\ calc = Idle
  /\ \E air \in Air, fT500 \in Temps500 :
       calc' = [fn |-> "computeShowalter", air |-> air, fT500 |-> fT500,
                Pbegin |-> ShowalterBegin, last |-> Lifted500(air, ShowalterBegin),
                out |-> computeShowalter(air, fT500)]
  /\ UNCHANGED Parked

(* ---------------------------------------------------------------------- *)
(* numerical.ts: computeEffectiveInflow                                    *)
(* ---------------------------------------------------------------------- *)
(* for (let p = Pbegin; p >= Pend; p -= 5) *)
InflowScanned(Pbegin, Pend) ==
  {p \in Pend..Pbegin : (Pbegin - p) % InflowStep = 0}

(* [CAPE, CIN] of computeCAPE(fT, fTd, p, Pend, 2) in J/kg at a scanned    *)
(* pressure: no buoyancy, enough of it, enough with too much inhibition,   *)
(* enough with as much inhibition as is allowed                            *)
Buoyancies ==
  {[CAPE |-> 0, CIN |-> 0], [CAPE |-> 150, CIN |-> 0],
   [CAPE |-> 150, CIN |-> -300], [CAPE |-> 150, CIN |-> -250]}

(* CAPE > 100 && CIN > -250 *)
Qualifies(b) == Gt(b.CAPE, 100) /\ Gt(b.CIN, -250)

(* the loop from pressure p on; st: inflowLayers, currentBottom, positive *)
RECURSIVE InflowFrom(_, _, _, _)
InflowFrom(capes, p, Pend, st) ==
  IF p < Pend THEN st.inflowLayers
  ELSE InflowFrom(capes, p - InflowStep, Pend,
         IF Qualifies(capes[p])
         THEN [st EXCEPT !.currentBottom = IF st.positive THEN @ ELSE p,
                         !.positive = TRUE]
         ELSE [st EXCEPT !.inflowLayers = IF st.positive
                                          THEN Append(@, <<st.currentBottom, p>>)
                                          ELSE @,
                         !.currentBottom = IF st.positive THEN NaN ELSE @,
                         !.positive = FALSE])

computeEffectiveInflow(capes, Pbegin, Pend) ==
  InflowFrom(capes, Pbegin, Pend,
             [inflowLayers |-> <<>>, currentBottom |-> NaN, positive |-> FALSE])

effectiveInflow ==
  /\ calc = Idle
  /\ \E Pend \in ScanEnds :
       \E capes \in [InflowScanned(ScanBegin, Pend) -> Buoyancies] :
         calc' = [fn |-> "computeEffectiveInflow", capes |-> capes,
                  Pbegin |-> ScanBegin, Pend |-> Pend,
                  out |-> computeEffectiveInflow(capes, ScanBegin, Pend)]
  /\ UNCHANGED Parked

(* ---------------------------------------------------------------------- *)
(* numerical.ts: the generators liftDryParcel and liftSaturatedParcel,     *)
(* one pass of the while loop per call of next()                           *)
(* ---------------------------------------------------------------------- *)
MaxP == 6
MaxDelta == 3
MaxCalls == 2

GenPressures == 0..MaxP
GenDeltas == 1..MaxDelta
GenTemps == {NaN, 1500}

Generators == {"liftDryParcel", "liftSaturatedParcel"}

(* the generator object a call returns: nothing has run yet *)
Generator(fn, Tinitial, Pinitial, Pend, deltaP, nth, before) ==
  [fn |-> fn, Tinitial |-> Tinitial, Pinitial |-> Pinitial, Pend |-> Pend,
   deltaP |-> deltaP, P |-> Pinitial, T |-> Tinitial, yielded |-> <<>>,
   done |-> FALSE, calls |-> nth, before |-> before]

callLiftDryParcel ==
  /\ calc = Idle
  /\ \E Tinitial \in GenTemps, Pinitial \in GenPressures,
        Pend \in GenPressures, deltaP \in GenDeltas :
       calc' = Generator("liftDryParcel", Tinitial, Pinitial, Pend, deltaP, 1, <<>>)
  /\ UNCHANGED Parked

callLiftSaturatedParcel ==
  /\ calc = Idle
  /\ \E Tinitial \in GenTemps, Pinitial \in GenPressures,
        Pend \in GenPressures, deltaP \in GenDeltas :
       calc' = Generator("liftSaturatedParcel", Tinitial, Pinitial, Pend, deltaP, 1, <<>>)
  /\ UNCHANGED Parked

(* next() on liftDryParcel: P -= deltaP; yield [P, ...], or return *)
nextDry ==
  /\ calc.fn = "liftDryParcel"
  /\ ~calc.done
  /\ calc' = IF Continues(calc.P, calc.Pend, calc.deltaP)
             THEN [calc EXCEPT !.P = @ - calc.deltaP,
                               !.yielded = Append(@,
                                  [P |-> calc.P - calc.deltaP,
                                   T |-> DryAdiabat(calc.Tinitial, calc.Pinitial,
                                                    calc.P - calc.deltaP)])]
             ELSE [calc EXCEPT !.done = TRUE]
  /\ UNCHANGED Parked

(* next() on liftSaturatedParcel: T -= deltaT; P -= deltaP; yield [P, T],  *)
(* or return                                                               *)
nextSaturated ==
  /\ calc.fn = "liftSaturatedParcel"
  /\ ~calc.done
  /\ calc' = IF Continues(calc.P, calc.Pend, calc.deltaP)
             THEN LET s == SaturatedPass([P |-> calc.P, T |-> calc.T], calc.deltaP)
                  IN  [calc EXCEPT !.P = s.P, !.T = s.T,
                                   !.yielded = Append(@, s)]
             ELSE [calc EXCEPT !.done = TRUE]
  /\ UNCHANGED Parked

(* a fresh call with the arguments of a generator that has returned *)
callAgain ==
  /\ calc.fn \in Generators
  /\ calc.done
  /\ calc.calls < MaxCalls
  /\ calc' = Generator(calc.fn, calc.Tinitial, calc.Pinitial, calc.Pend,
                    calc.deltaP, calc.calls + 1, calc.yielded)
  /\ UNCHANGED Parked

(* ---------------------------------------------------------------------- *)
(* numerical.ts: liftParcel on its own                                     *)
(* ---------------------------------------------------------------------- *)
(* LCL may lie above Pinitial in pressure: liftedCondensationLevel of a    *)
(* saturated parcel below 1000 hPa does                                    *)
LiftLCLs == 0..(MaxP + 1)

(* the call, its pairs, and how many of them the dry ascent yielded *)
Lifted(Tinitial, Pinitial, Pend, LCL, deltaP, dry) ==
  [fn |-> "liftParcel", Tinitial |-> Tinitial, Pinitial |-> Pinitial,
   Pend |-> Pend, LCL |-> LCL, deltaP |-> deltaP, dry |-> Len(dry),
   out |-> liftParcel(Tinitial, Pinitial, Pend, LCL, deltaP)]

lift ==
  /\ calc = Idle
  /\ \E Tinitial \in Temps, Pinitial \in GenPressures, Pend \in GenPressures,
        LCL \in LiftLCLs, deltaP \in GenDeltas :
       calc' = Lifted(Tinitial, Pinitial, Pend, LCL, deltaP,
                      liftDryParcel(Tinitial, Pinitial, LCL, deltaP))
  /\ UNCHANGED Parked

NextFn ==
  \/ newSounding
  \/ mostUnstable
  \/ cape
  \/ liftedIndex
  \/ showalter
  \/ effectiveInflow
  \/ callLiftDryParcel
  \/ callLiftSaturatedParcel
  \/ nextDry
  \/ nextSaturated
  \/ callAgain
  \/ lift

SpecFn == InitFn /\ [][NextFn]_vars

(* the consumer of a generator (a for-of loop) calls next() until the      *)
(* generator returns                                                       *)
SpecGen == SpecFn /\ WF_vars(nextDry) /\ WF_vars(nextSaturated)

(* ---------------------------------------------------------------------- *)
(* C19: computeMostUnstable returns the scanned pressure whose equivalent  *)
(* potential temperature is the maximum over the scan, whatever the sign   *)
(* of the values, and the first such pressure of the scan when several     *)
(* share the maximum.                                                      *)
(* ---------------------------------------------------------------------- *)
C19_ReturnsFirstMaximum ==
  (/\ calc.fn = "computeMostUnstable"
   /\ \A p \in DOMAIN calc.thetae : ~IsNaN(calc.thetae[p])) =>
    /\ calc.out \in DOMAIN calc.thetae
    /\ \A p \in DOMAIN calc.thetae :
         /\ calc.thetae[p] <= calc.thetae[calc.out]
         /\ (calc.thetae[p] = calc.thetae[calc.out]) => p <= calc.out

(* ---------------------------------------------------------------------- *)
(* C18: computeCAPE returns CAPE = 0 for every profile in which the        *)
(* temperature of the lifted parcel exceeds the temperature of the         *)
(* environment at no step of the ascent.                                   *)
(* ---------------------------------------------------------------------- *)
C18_NoCapeWhenParcelNeverWarmer ==
  (/\ calc.fn = "computeCAPE"
   /\ \A k \in 1..Len(calc.ps) : calc.parcel[k] <= calc.env[calc.ps[k]].T) =>
    calc.out.CAPE = 0

(* ---------------------------------------------------------------------- *)
(* C20: CAPE is the sum of the positive step contributions, and CIN is the *)
(* sum of exactly the negative step contributions of negative layers that  *)
(* a positive layer follows further up the ascent; negative contributions  *)
(* above the last Equilibrium Level are not in CIN.                        *)
(* ---------------------------------------------------------------------- *)
RECURSIVE SumOver(_, _)
SumOver(cs, keep) ==
  IF keep = {} THEN 0
  ELSE LET k == CHOOSE j \in keep : TRUE
       IN  cs[k] + SumOver(cs, keep \ {k})

PositiveSteps(cs) == {k \in 1..Len(cs) : Gt(cs[k], 0)}

(* negative steps with a positive step further up *)
InhibitingSteps(cs) ==
  {k \in 1..Len(cs) : Lt(cs[k], 0) /\ \E j \in (k + 1)..Len(cs) : Gt(cs[j], 0)}

C20_CapeAndCinSums ==
  calc.fn = "computeCAPE" =>
    /\ calc.out.CAPE = SumOver(calc.newCAPE, PositiveSteps(calc.newCAPE))
    /\ calc.out.CIN = SumOver(calc.newCAPE, InhibitingSteps(calc.newCAPE))

(* ---------------------------------------------------------------------- *)
(* C21: for every sequence of step contributions, LFC is the pressure of   *)
(* the first step at which buoyancy turns positive and EL the pressure of  *)
(* the last positive-to-negative transition.                               *)
(* ---------------------------------------------------------------------- *)
(* the sign of the last contribution before step k that is not zero or     *)
(* NaN; 0 when there is none                                               *)
SignBefore(cs, k) ==
  LET before == {j \in 1..(k - 1) : Gt(cs[j], 0) \/ Lt(cs[j], 0)}
  IN  IF before = {} THEN 0
      ELSE LET j == CHOOSE i \in before : \A h \in before : h <= i
           IN  IF cs[j] > 0 THEN 1 ELSE -1

(* steps at which buoyancy turns positive, and at which it turns negative  *)
(* after having been positive                                              *)
TurnsPositive(cs) == {k \in 1..Len(cs) : Gt(cs[k], 0) /\ SignBefore(cs, k) # 1}
TurnsNegative(cs) == {k \in 1..Len(cs) : Lt(cs[k], 0) /\ SignBefore(cs, k) = 1}

FirstOf(ks) == CHOOSE k \in ks : \A j \in ks : k <= j
LastOf(ks) == CHOOSE k \in ks : \A j \in ks : j <= k


C21_LfcFirstElLast ==
  calc.fn = "computeCAPE" =>
    LET up == TurnsPositive(calc.newCAPE)
        down == TurnsNegative(calc.newCAPE)
    IN  /\ calc.out.LFC = (IF up = {} THEN NaN ELSE calc.ps[FirstOf(up)])
        /\ calc.out.EL = (IF down = {} THEN NaN ELSE calc.ps[LastOf(down)])

(* C21 as the code has it: LFC is the pressure of the last step at which   *)
(* buoyancy turns positive (the bottom of the highest positive layer), EL  *)
(* the pressure of the last step at which it turns negative after having   *)
(* been positive; each is NaN when there is no such step.                  *)
C21_LfcLastElLast ==
  calc.fn = "computeCAPE" =>
    LET up == TurnsPositive(calc.newCAPE)
        down == TurnsNegative(calc.newCAPE)
    IN  /\ calc.out.LFC = (IF up = {} THEN NaN ELSE calc.ps[LastOf(up)])
        /\ calc.out.EL = (IF down = {} THEN NaN ELSE calc.ps[LastOf(down)])

C21_Witness ==
  /\ calc.fn = "computeCAPE"
  /\ \E i, j, k \in 1..Len(calc.ps) :
       /\ i < j /\ j < k
       /\ calc.newCAPE[i] > 0 /\ calc.newCAPE[j] < 0 /\ calc.newCAPE[k] > 0
       /\ calc.ps[k] < calc.ps[i]
       /\ calc.out.LFC = calc.ps[k]
       /\ calc.out.EL = calc.ps[j]

(* ---------------------------------------------------------------------- *)
(* C22: computeLiftedIndex and computeShowalter return the temperature of  *)
(* the parcel lifted to exactly 500 hPa minus the temperature of the       *)
(* environment at 500 hPa.                                                 *)
(* ---------------------------------------------------------------------- *)
C22_ParcelAt500MinusEnvironment ==
  calc.fn \in {"computeLiftedIndex", "computeShowalter"} =>
    /\ calc.last.P = 500
    /\ ~IsNaN(calc.last.T)
    /\ calc.out = calc.last.T - calc.fT500

(* ---------------------------------------------------------------------- *)
(* C23: computeEffectiveInflow returns exactly one (bottom, top) pair for  *)
(* every maximal contiguous run of scanned pressures at which CAPE > 100   *)
(* and CIN > -250, wherever in the scan the run lies, and no other pair.   *)
(* ---------------------------------------------------------------------- *)
(* the scanned pressures at which a maximal qualifying run begins *)
RunBottoms(capes, Pbegin) ==
  {p \in DOMAIN capes :
     /\ Qualifies(capes[p])
     /\ (p = Pbegin \/ ~Qualifies(capes[p + InflowStep]))}

C23_OnePairPerRun ==
  calc.fn = "computeEffectiveInflow" =>
    /\ Len(calc.out) = Cardinality(RunBottoms(calc.capes, calc.Pbegin))
    /\ \A b \in RunBottoms(calc.capes, calc.Pbegin) :
         \E i \in 1..Len(calc.out) : calc.out[i][1] = b
    /\ \A i \in 1..Len(calc.out) :
         /\ calc.out[i][1] \in RunBottoms(calc.capes, calc.Pbegin)
         /\ calc.out[i][2] \in DOMAIN calc.capes
         /\ calc.out[i][2] < calc.out[i][1]

(* ---------------------------------------------------------------------- *)
(* C26: for every Tinitial, Pinitial, Pend and every deltaP > 0 the        *)
(* generators liftDryParcel and liftSaturatedParcel return after finitely  *)
(* many pairs; the k-th pair yielded has pressure Pinitial - k * deltaP;   *)
(* no pair is produced once the current pressure is below Pend or below    *)
(* deltaP; a fresh call with the same arguments yields the same pairs.     *)
(* ---------------------------------------------------------------------- *)
C26_Pairs ==
  calc.fn \in Generators =>
    /\ \A k \in 1..Len(calc.yielded) :
         /\ calc.yielded[k].P = calc.Pinitial - (k * calc.deltaP)
         /\ calc.yielded[k].P + calc.deltaP >= calc.Pend
         /\ calc.yielded[k].P >= 0
    /\ Len(calc.yielded) * calc.deltaP <= calc.Pinitial
    /\ (calc.done /\ calc.calls > 1) => calc.yielded = calc.before
    /\ calc.done =>
         calc.yielded = IF calc.fn = "liftDryParcel"
                        THEN liftDryParcel(calc.Tinitial, calc.Pinitial,
                                           calc.Pend, calc.deltaP)
                        ELSE liftSaturatedParcel(calc.Tinitial, calc.Pinitial,
                                                 calc.Pend, calc.deltaP)

MoistFrom(c, j) ==
  IF j = 1 THEN [P |-> c.LCL, T |-> c.out[c.dry].T] ELSE c.out[c.dry + j - 1]

(* the loop of a generator has nothing more to yield at pressure P *)
Exhausted(P, Pend, deltaP) == P < Pend \/ P < deltaP

C24_DryThenMoist ==
  calc.fn = "liftParcel" =>
    /\ calc.dry <= Len(calc.out)
    /\ \A k \in 1..calc.dry :
         /\ calc.out[k].P = calc.Pinitial - (k * calc.deltaP)
         /\ calc.out[k].P + calc.deltaP >= calc.LCL
         /\ calc.out[k].T = DryAdiabat(calc.Tinitial, calc.Pinitial, calc.out[k].P)
    /\ Exhausted(calc.Pinitial - (calc.dry * calc.deltaP), calc.LCL, calc.deltaP)
    /\ \A j \in 1..(Len(calc.out) - calc.dry) :
         /\ calc.out[calc.dry + j].P = calc.LCL - (j * calc.deltaP)
         /\ calc.out[calc.dry + j].P + calc.deltaP >= calc.Pend
         /\ (calc.dry > 0 \/ j > 1) =>
              calc.out[calc.dry + j] = SaturatedPass(MoistFrom(calc, j), calc.deltaP)
    /\ Exhausted(calc.LCL - ((Len(calc.out) - calc.dry) * calc.deltaP),
                 calc.Pend, calc.deltaP)

(* two dry pairs or more, cooled below Tinitial, then two moist pairs or more *)
C24_Witness ==
  /\ calc.fn = "liftParcel"
  /\ calc.dry >= 2
  /\ Len(calc.out) >= calc.dry + 2
  /\ calc.out[calc.dry].T < calc.Tinitial
  /\ calc.out[Len(calc.out)].P > 0

(* ---------------------------------------------------------------------- *)
(* C25: when Pinitial - LCL is a whole number of deltaP steps, the last    *)
(* dry pair of liftParcel has pressure exactly LCL, no dry pair has a      *)
(* pressure below LCL, and no pressure is yielded twice.                   *)
(* ---------------------------------------------------------------------- *)
C25_ExactTransition ==
  (/\ calc.fn = "liftParcel"
   /\ calc.LCL <= calc.Pinitial
   /\ (calc.Pinitial - calc.LCL) % calc.deltaP = 0) =>
    /\ calc.dry > 0 => calc.out[calc.dry].P = calc.LCL
    /\ \A k \in 1..calc.dry : calc.out[k].P >= calc.LCL
    /\ \A i, j \in 1..Len(calc.out) : i < j => calc.out[i].P # calc.out[j].P

(* ---------------------------------------------------------------------- *)
(* C30: whenever the dry ascent of liftParcel yields no pair, the moist    *)
(* ascent is seeded with NaN and not with Tinitial, every pair liftParcel  *)
(* yields carries a NaN temperature, and computeCAPE on such a parcel      *)
(* returns CAPE = 0 and CIN = 0 with LFC and EL NaN.                       *)
(* ---------------------------------------------------------------------- *)
C30_EmptyDryAscentGivesNaN ==
  /\ (calc.fn = "liftParcel" /\ calc.dry = 0) =>
       /\ calc.LCL > calc.Pinitial \/ calc.Pinitial < calc.deltaP
       /\ \A k \in 1..Len(calc.out) :
            /\ IsNaN(calc.out[k].T)
            /\ calc.out[k].P = calc.LCL - (k * calc.deltaP)
  /\ (calc.fn = "liftParcel" /\ calc.dry > 0) =>
       (calc.LCL <= calc.Pinitial /\ calc.Pinitial >= calc.deltaP)
  /\ (calc.fn = "computeCAPE" /\ calc.LCL > calc.Pbegin) =>
       /\ \A k \in 1..Len(calc.parcel) : IsNaN(calc.parcel[k])
       /\ calc.out.CAPE = 0
       /\ calc.out.CIN = 0
       /\ IsNaN(calc.out.LFC)
       /\ IsNaN(calc.out.EL)

(* a profile saturated at 850 hPa: the LCL lies below the start and the    *)
(* parcel is followed over two steps or more                               *)
C30_Witness ==
  /\ calc.fn = "computeCAPE"
  /\ calc.LCL > calc.Pbegin
  /\ Len(calc.parcel) >= 2

(* ---------------------------------------------------------------------- *)
(* C29: from a profile whose levels all have pressure > 0, an insertAbove, *)
(* insertBelow, delete, enableLevel or disableLevel leaves every enabled   *)
(* level with pressure > 0, so that first() and last() never hand a zero   *)
(* or negative pressure to the index computations.                         *)
(* ---------------------------------------------------------------------- *)
AllAboveZero(lv) == \A i \in 1..Len(lv) : Gt(lv[i].pressure, 0)

C29_EnabledPressuresStayPositive ==
  [][(/\ AllAboveZero(levels)
      /\ op'.name \in {"insertAbove", "insertBelow", "delete", "enableLevel",
                       "disableLevel"}
      /\ ops' # ops)
       => AllAboveZero(enabledLevels')]_vars

(* ---------------------------------------------------------------------- *)
(* table.ts: class SoundingTable, with the Sounding it displays and the    *)
(* LevelDetails that observes both, as initializeSounding wires them       *)
(* ---------------------------------------------------------------------- *)
MaxEvents == 4

(* an event handler has run: what it was called for and whether it raised *)
Handled(t, name, id, raised) ==
  [t EXCEPT !.event = [name |-> name, id |-> id, raised |-> raised],
            !.events = @ + 1]

(* new SoundingTable(snd), new LevelDetails(snd): one row per raw level *)
SoundingTable(lv) ==
  [fn |-> "SoundingTable", levels |-> lv, lastID |-> Len(lv),
   pres |-> first(updateEnabledLevels(lv)).pressure,
   previousActiveLevel |-> first(updateEnabledLevels(lv)).pressure,
   body |-> [i \in 1..Len(lv) |-> lv[i].id],
   lastEdited |-> -1, choosenLevel |-> -1, menu |-> FALSE,
   event |-> [name |-> "new", id |-> -1, raised |-> FALSE], events |-> 0]

InitTable ==
  /\ levels = <<>>
  /\ enabledLevels = <<>>
  /\ observers = <<>>
  /\ lastID = 0
  /\ closure = [CAPE |-> Unassigned, CIN |-> Unassigned, LFC |-> Unassigned,
                EL |-> Unassigned, inflow |-> Unassigned]
  /\ rows = <<>>
  /\ pres = NaN
  /\ previousActiveLevel = NaN
  /\ calls = <<>>
  /\ op = Done("none", "")
  /\ ops = 0
  /\ snapshot = None
  /\ \E src \in Sources :
       /\ HasFirst(updateEnabledLevels(Sounding(src)))
       /\ ~LevelDetailsUpdateRaises(updateEnabledLevels(Sounding(src)),
                                    first(updateEnabledLevels(Sounding(src))).pressure)
       /\ calc = SoundingTable(Sounding(src))

(* the ids of the rows of 'sounding-table-body' *)
RowIds(t) == {t.body[i] : i \in 1..Len(t.body)}

(* the user can act on the table *)
Shown ==
  /\ calc.fn = "SoundingTable"
  /\ calc.events < MaxEvents

(* closeContextMenu *)
closeContextMenu(t) ==
  IF t.choosenLevel # -1 THEN [t EXCEPT !.choosenLevel = -1, !.menu = FALSE] ELSE t

(* closeInputBox raises when sounding.find(levelID) does *)
closeInputBoxRaises(t) == t.lastEdited # -1 /\ ~Stored(t.levels, t.lastEdited)

(* closeInputBox, sounding.find(levelID) having returned *)
closeInputBox(t) == [t EXCEPT !.lastEdited = -1]

(* onChange() raises: of the observers only LevelDetails.update lets an    *)
(* error out                                                               *)
onChangeRaises(t, lv) == LevelDetailsUpdateRaises(updateEnabledLevels(lv), t.pres)

(* body.insertAdjacentHTML at the row of level at: 'beforebegin' or        *)
(* 'afterend'; currentRow?. does nothing when there is no such row         *)
RowInserted(body, at, id, after) ==
  IF \E i \in 1..Len(body) : body[i] = at
  THEN LET i == CHOOSE k \in 1..Len(body) : body[k] = at
       IN  IF after
           THEN SubSeq(body, 1, i) \o <<id>> \o SubSeq(body, i + 1, Len(body))
           ELSE SubSeq(body, 1, i - 1) \o <<id>> \o SubSeq(body, i, Len(body))
  ELSE body

(* document.getElementById(id).remove() *)
RowRemoved(body, id) == SelectSeq(body, LAMBDA r : r # id)

(* tableLeftClickHandler on the data cell of the row of level id *)
tableLeftClickCell ==
  /\ Shown
  /\ \E id \in RowIds(calc) :
       LET t == closeContextMenu(calc)
       IN  calc' = IF closeInputBoxRaises(t) THEN Handled(t, "cell", id, TRUE)
                   ELSE IF ~Stored(t.levels, id)
                        THEN Handled(closeInputBox(t), "cell", id, TRUE)
                   ELSE Handled([t EXCEPT !.lastEdited = id], "cell", id, FALSE)
  /\ UNCHANGED Parked

(* tableLeftClickHandler on the checkbox of the row of level id: the box   *)
(* shows level.enabled and the click has toggled it                        *)
tableLeftClickCheckbox ==
  /\ Shown
  /\ \E id \in RowIds(calc) :
       LET t == closeContextMenu(calc)
           lv == Assign(t.levels, id, "enabled",
                        1 - t.levels[findIndex(t.levels, id)].enabled)
       IN  calc' = IF ~Stored(t.levels, id) THEN Handled(t, "checkbox", id, TRUE)
                   ELSE Handled([t EXCEPT !.levels = lv], "checkbox", id,
                                onChangeRaises(t, lv))
  /\ UNCHANGED Parked

(* the 'input' listener of the edit box: changeAttribute(targetLevel, ..) *)
editBoxInput ==
  /\ Shown
  /\ calc.lastEdited \in RowIds(calc)
  /\ \E edit \in Typed :
       LET lv == Assign(calc.levels, calc.lastEdited, edit[1], edit[2])
       IN  calc' = IF ~Stored(calc.levels, calc.lastEdited)
                   THEN Handled(calc, "input", calc.lastEdited, TRUE)
                   ELSE Handled([calc EXCEPT !.levels = lv], "input",
                                calc.lastEdited, onChangeRaises(calc, lv))
  /\ UNCHANGED Parked

(* the 'keydown' listener of the edit box, key Enter: closeInputBox() *)
editBoxEnter ==
  /\ Shown
  /\ calc.lastEdited \in RowIds(calc)
  /\ calc' = IF closeInputBoxRaises(calc)
             THEN Handled(calc, "enter", calc.lastEdited, TRUE)
             ELSE Handled(closeInputBox(calc), "enter", calc.lastEdited, FALSE)
  /\ UNCHANGED Parked

(* tableRightClickHandler on a cell of the row of level id *)
tableRightClickHandler ==
  /\ Shown
  /\ \E id \in RowIds(calc) :
       calc' = Handled([closeContextMenu(calc) EXCEPT !.menu = TRUE,
                                                      !.choosenLevel = id],
                       "contextmenu", id, FALSE)
  /\ UNCHANGED Parked

(* contextMenuClickHandler, 'sounding-table-menu-delete' *)
contextMenuDelete ==
  /\ Shown
  /\ calc.menu
  /\ LET id == calc.choosenLevel
         lv == SpliceOut(calc.levels, findIndex(calc.levels, id) - 1)
     IN  calc' = IF ~Stored(calc.levels, id) THEN Handled(calc, "delete", id, TRUE)
                 ELSE IF onChangeRaises(calc, lv)
                      THEN Handled([calc EXCEPT !.levels = lv], "delete", id, TRUE)
                 ELSE Handled(closeContextMenu(
                                [calc EXCEPT !.levels = lv,
                                             !.body = RowRemoved(@, id)]),
                              "delete", id, FALSE)
  /\ UNCHANGED Parked

(* sounding.insertAbove(id) on the levels lv: the new raw list, <<>> when  *)
(* the neighbour handed to extrapolate is undefined                        *)
InsertedAbove(lv, id, new) ==
  LET index == findIndex(lv, id) - 1
  IN  IF index = 0
      THEN IF Len(lv) = 1 THEN <<>>
           ELSE <<extrapolate(lv[1], lv[2], new)>> \o lv
      ELSE SpliceIn(lv, index, interpolate(lv[index], lv[index + 1], new))

(* sounding.insertBelow(id) on the levels lv *)
InsertedBelow(lv, id, new) ==
  LET index == findIndex(lv, id) - 1
  IN  IF index = Len(lv) - 1
      THEN IF index = 0 THEN <<>>
           ELSE Append(lv, extrapolate(lv[index + 1], lv[index], new))
      ELSE SpliceIn(lv, index + 1, interpolate(lv[index + 1], lv[index + 2], new))

(* contextMenuClickHandler after sounding.insertAbove / insertBelow of the *)
(* choosen level has left lv                                               *)
contextMenuInserted(name, lv, after) ==
  LET id == calc.choosenLevel
      t == [calc EXCEPT !.lastID = @ + 1]
  IN  IF ~Stored(calc.levels, id) THEN Handled(calc, name, id, TRUE)
      ELSE IF lv = <<>> THEN Handled(t, name, id, TRUE)
      ELSE IF onChangeRaises(calc, lv)
           THEN Handled([t EXCEPT !.levels = lv], name, id, TRUE)
      ELSE Handled(closeContextMenu(
                     [t EXCEPT !.levels = lv,
                               !.body = RowInserted(@, id, calc.lastID, after)]),
                   name, id, FALSE)

(* contextMenuClickHandler, 'sounding-table-menu-insert-above' *)
contextMenuInsertAbove ==
  /\ Shown
  /\ calc.menu
  /\ calc.lastID < MaxLastID
  /\ calc' = contextMenuInserted("insertAbove",
                                 InsertedAbove(calc.levels, calc.choosenLevel,
                                               calc.lastID),
                                 FALSE)
  /\ UNCHANGED Parked

(* contextMenuClickHandler, 'sounding-table-menu-insert-below' *)
contextMenuInsertBelow ==
  /\ Shown
  /\ calc.menu
  /\ calc.lastID < MaxLastID
  /\ calc' = contextMenuInserted("insertBelow",
                                 InsertedBelow(calc.levels, calc.choosenLevel,
                                               calc.lastID),
                                 TRUE)
  /\ UNCHANGED Parked

(* SoundingTable.mouseMoveHandler on a data cell of the row of level id,   *)
(* its observer being det.setLevel                                         *)
tableMouseMove ==
  /\ Shown
  /\ \E id \in RowIds(calc) :
       IF ~Stored(calc.levels, id)
       THEN calc' = Handled(calc, "mousemove", id, TRUE)
       ELSE LET level == calc.levels[findIndex(calc.levels, id)]
                raises == LevelDetailsUpdateRaises(updateEnabledLevels(calc.levels),
                                                   level.pressure)
            IN  /\ calc.previousActiveLevel # level.pressure \/ IsNaN(level.pressure)
                /\ calc' = Handled([calc EXCEPT !.pres = level.pressure,
                                                !.previousActiveLevel =
                                                   IF raises THEN @ ELSE level.pressure],
                                   "mousemove", id, raises)
  /\ UNCHANGED Parked

NextTable ==
  \/ tableLeftClickCell
  \/ tableLeftClickCheckbox
  \/ editBoxInput
  \/ editBoxEnter
  \/ tableRightClickHandler
  \/ contextMenuDelete
  \/ contextMenuInsertAbove
  \/ contextMenuInsertBelow
  \/ tableMouseMove

SpecTable == InitTable /\ [][NextTable]_vars

(* ---------------------------------------------------------------------- *)
(* C27: after any sequence of context-menu inserts and deletes, checkbox   *)
(* toggles and cell edits, with the plot, the index table and the level    *)
(* details observing the sounding, the row ids of the table in order are   *)
(* the level ids of the profile in raw order.                              *)
(* ---------------------------------------------------------------------- *)
C27_RowsFollowRawOrder ==
  calc.fn = "SoundingTable" =>
    calc.body = [i \in 1..Len(calc.levels) |-> calc.levels[i].id]

(* ---------------------------------------------------------------------- *)
(* C28: after any sequence of cell clicks, context-menu inserts and        *)
(* deletes, a left click on a data cell of a level that is still stored    *)
(* closes the cell edited before and opens the edit box on the cell        *)
(* clicked: editing never becomes impossible.                              *)
(* ---------------------------------------------------------------------- *)
C28_ClickOpensEditBox ==
  (/\ calc.fn = "SoundingTable"
   /\ calc.event.name = "cell"
   /\ Stored(calc.levels, calc.event.id)) =>
    /\ ~calc.event.raised
    /\ calc.lastEdited = calc.event.id

=============================================================================
